---- MODULE Spec2Model ----
(***************************************************************************)
(* Model of the obr binaural renderer facade (ObrImpl) and of the          *)
(* configuration objects it owns: the audio element list, the per-channel  *)
(* descriptors, the DSP objects created by InitializeDsp and the checks    *)
(* made by Process.  Audio samples are symbolic: a buffer channel holds    *)
(* the list of input channels summed into it.                              *)
(***************************************************************************)
EXTENDS Integers, Sequences, FiniteSets, TLC

VARIABLES
  buffer_size_per_channel_,         \* ObrImpl::buffer_size_per_channel_
  sampling_rate_,                   \* ObrImpl::sampling_rate_
  asset_orders,                     \* orders N for which the linked asset wrapper has "NOA_L"/"NOA_R"
  audio_elements_,                  \* ObrImpl::audio_elements_
  head_tracking_enabled_,           \* ObrImpl::head_tracking_enabled_
  world_rotation_,                  \* ObrImpl::world_rotation_
  ambisonic_binaural_decoder_,      \* unique_ptr<AmbisonicBinauralDecoder>
  sh_hrirs_L_,                      \* unique_ptr<AudioBuffer>
  sh_hrirs_R_,                      \* unique_ptr<AudioBuffer>
  ambisonic_encoder_,               \* unique_ptr<AmbisonicEncoder>
  peak_limiter_,                    \* unique_ptr<PeakLimiter>
  ambisonic_rotator_,               \* unique_ptr<AmbisonicRotator>
  ambisonic_mix_bed_,               \* AudioBuffer
  ambisonic_encoder_input_buffer_,  \* AudioBuffer
  call,                             \* the last API call, its arguments and what it returned
  run,                              \* "running", "aborted" (CHECK / LOG(FATAL)), "undefined" (UB)
  peak_limiter,                     \* a PeakLimiter on its own: ceiling_, release_time_constant_, env_
  signal,                           \* the frames fed to that limiter so far, block after block
  limiter_env,                      \* the envelope it applied to each of those frames
  limited,                          \* the frames it wrote
  source_encoder,                   \* an AmbisonicEncoder on its own: sources_, encoding_matrix_
  last_source_call,                 \* per input channel, the last SetSource / RemoveSource made for it
  encoder_call,                     \* the last call made on that encoder, with the encoder it found
  hoa_rotator,                      \* an AmbisonicRotator on its own: the rotation it last applied
  rotator_calls,                    \* the Process calls made on that rotator, oldest first
  mutex_,                           \* the thread holding ObrImpl::mutex_, or "free"
  audio_thread,                     \* where the thread that calls Process is inside Process
  config_thread,                    \* where the thread that configures is inside its call
  process_view,                     \* what the Process call in progress found at its CHECKs
  fft_manager_,                     \* an FftManager on its own: fft_size_, frames_per_buffer_
  binaural_decoder,                 \* the AmbisonicBinauralDecoder built on that manager
  decoder_run,                      \* "running", "aborted" (DCHECK), "undefined" (UB) for the two
  wav_reader,                       \* a WavReader on its own, with the stream it reads
  wav_call                          \* the last call made on that reader and what it returned

dspVars == <<ambisonic_binaural_decoder_, sh_hrirs_L_, sh_hrirs_R_,
             ambisonic_encoder_, peak_limiter_, ambisonic_rotator_,
             ambisonic_mix_bed_, ambisonic_encoder_input_buffer_>>

\* The state of the units that are also exercised on their own.
limiterVars == <<peak_limiter, signal, limiter_env, limited>>

encoderVars == <<source_encoder, last_source_call, encoder_call>>

rotatorVars == <<hoa_rotator, rotator_calls>>

decoderVars == <<fft_manager_, binaural_decoder, decoder_run>>

wavVars == <<wav_reader, wav_call>>

\* The two threads of a renderer that is configured while it renders.
threadVars == <<mutex_, audio_thread, config_thread, process_view>>

unitVars == <<limiterVars, encoderVars, rotatorVars, decoderVars, wavVars, threadVars>>

\* The members of ObrImpl and the record of the calls made on it.
rendererVars ==
  <<buffer_size_per_channel_, sampling_rate_, asset_orders, audio_elements_,
    head_tracking_enabled_, world_rotation_, ambisonic_binaural_decoder_,
    sh_hrirs_L_, sh_hrirs_R_, ambisonic_encoder_, peak_limiter_,
    ambisonic_rotator_, ambisonic_mix_bed_, ambisonic_encoder_input_buffer_,
    call, run>>

vars == <<unitVars, buffer_size_per_channel_, sampling_rate_, asset_orders,
          audio_elements_, head_tracking_enabled_, world_rotation_,
          ambisonic_binaural_decoder_, sh_hrirs_L_, sh_hrirs_R_,
          ambisonic_encoder_, peak_limiter_, ambisonic_rotator_,
          ambisonic_mix_bed_, ambisonic_encoder_input_buffer_, call, run>>

-----------------------------------------------------------------------------
(* Bounds of the model.                                                    *)

\* Longest element list the model builds.
MaxElements == 3

\* Block sizes the renderer is constructed with.
BufferSizes == {12}

\* Sampling rates the renderer is constructed with.
SamplingRates == {44100, 48000, 8000}

\* Asset wrappers that can be linked: orders 1..3 only, or orders 1..7.
AssetBuilds == {1..3, 1..7}

\* (azimuth, elevation, distance) triples passed to UpdateObjectPosition.
Positions == {<<0, 0, 1>>, <<90, 30, 2>>}

\* Element types passed to AddAudioElement.
AddedTypes ==
  {"k1OA", "k3OA", "k7OA", "kLayoutMono", "kLayout7_1_4_ch", "kObjectMono",
   "kUnknown"}

\* Head rotations passed to SetHeadRotation (symbolic quaternions).
Rotations == {"identity", "quarter_turn_z"}

-----------------------------------------------------------------------------
(* Constants and element types.                                            *)

kNumBinauralChannels == 2
kMinSupportedAmbisonicOrder == 1
kMaxSupportedAmbisonicOrder == 7
kMaxSupportedNumInputChannels == 128

\* Sample rate of the packaged SH-HRIR WAV assets.
kHrirAssetSampleRate == 48000

AmbisonicsTypes == {"k1OA", "k2OA", "k3OA", "k4OA", "k5OA", "k6OA", "k7OA"}

LoudspeakerLayoutTypes ==
  {"kLayoutMono", "kLayoutStereo", "kLayout3_1_2_ch", "kLayout5_1_0_ch",
   "kLayout5_1_2_ch", "kLayout5_1_4_ch", "kLayout7_1_0_ch", "kLayout7_1_2_ch",
   "kLayout7_1_4_ch", "kLayout9_1_0_ch", "kLayout9_1_2_ch", "kLayout9_1_4_ch",
   "kLayout9_1_6_ch"}

ObjectTypes == {"kObjectMono"}

\* A value of AudioElementType outside the recognised kinds.
UnknownTypes == {"kUnknown"}

AudioElementType ==
  AmbisonicsTypes \cup LoudspeakerLayoutTypes \cup ObjectTypes \cup UnknownTypes

IsAmbisonicsType(type) == type \in AmbisonicsTypes
IsLoudspeakerLayoutType(type) == type \in LoudspeakerLayoutTypes
IsObjectType(type) == type \in ObjectTypes

GetAmbisonicOrder(type) ==
  CASE type = "k1OA" -> 1 [] type = "k2OA" -> 2 [] type = "k3OA" -> 3
    [] type = "k4OA" -> 4 [] type = "k5OA" -> 5 [] type = "k6OA" -> 6
    [] type = "k7OA" -> 7

-----------------------------------------------------------------------------
(* Loudspeaker tables.                                                     *)

LoudspeakerLayoutInputChannel(id, azimuth, elevation, distance, is_LFE) ==
  [id |-> id, input_channel_index |-> 0, azimuth |-> azimuth,
   elevation |-> elevation, distance |-> distance, is_LFE |-> is_LFE]

loudspeaker_map(label) ==
  CASE label = "kC"     -> LoudspeakerLayoutInputChannel("kC", 0, 0, 1, FALSE)
    [] label = "kLFE"   -> LoudspeakerLayoutInputChannel("kLFE", 0, -30, 1, TRUE)
    [] label = "kL30"   -> LoudspeakerLayoutInputChannel("kL30", 30, 0, 1, FALSE)
    [] label = "kR30"   -> LoudspeakerLayoutInputChannel("kR30", -30, 0, 1, FALSE)
    [] label = "kL45"   -> LoudspeakerLayoutInputChannel("kL45", 45, 0, 1, FALSE)
    [] label = "kR45"   -> LoudspeakerLayoutInputChannel("kR45", -45, 0, 1, FALSE)
    [] label = "kL60"   -> LoudspeakerLayoutInputChannel("kL60", 60, 0, 1, FALSE)
    [] label = "kR60"   -> LoudspeakerLayoutInputChannel("kR60", -60, 0, 1, FALSE)
    [] label = "kL90"   -> LoudspeakerLayoutInputChannel("kL90", 90, 0, 1, FALSE)
    [] label = "kR90"   -> LoudspeakerLayoutInputChannel("kR90", -90, 0, 1, FALSE)
    [] label = "kL110"  -> LoudspeakerLayoutInputChannel("kL110", 110, 0, 1, FALSE)
    [] label = "kR110"  -> LoudspeakerLayoutInputChannel("kR110", -110, 0, 1, FALSE)
    [] label = "kL135"  -> LoudspeakerLayoutInputChannel("kL135", 135, 0, 1, FALSE)
    [] label = "kR135"  -> LoudspeakerLayoutInputChannel("kR135", -135, 0, 1, FALSE)
    [] label = "kTL30"  -> LoudspeakerLayoutInputChannel("kTL30", 30, 45, 1, FALSE)
    [] label = "kTR30"  -> LoudspeakerLayoutInputChannel("kTR30", -30, 45, 1, FALSE)
    [] label = "kTL45"  -> LoudspeakerLayoutInputChannel("kTL45", 45, 45, 1, FALSE)
    [] label = "kTR45"  -> LoudspeakerLayoutInputChannel("kTR45", -45, 45, 1, FALSE)
    [] label = "kTL90"  -> LoudspeakerLayoutInputChannel("kTL90", 90, 45, 1, FALSE)
    [] label = "kTR90"  -> LoudspeakerLayoutInputChannel("kTR90", -90, 45, 1, FALSE)
    [] label = "kTL135" -> LoudspeakerLayoutInputChannel("kTL135", 135, 45, 1, FALSE)
    [] label = "kTR135" -> LoudspeakerLayoutInputChannel("kTR135", -135, 45, 1, FALSE)
    [] label = "kTL150" -> LoudspeakerLayoutInputChannel("kTL150", 150, 45, 1, FALSE)
    [] label = "kTR150" -> LoudspeakerLayoutInputChannel("kTR150", -150, 45, 1, FALSE)

layout_map(type) ==
  CASE type = "kLayoutMono"     -> <<"kC">>
    [] type = "kLayoutStereo"   -> <<"kL30", "kR30">>
    [] type = "kLayout3_1_2_ch" -> <<"kL45", "kR45", "kC", "kLFE", "kTL30", "kTR30">>
    [] type = "kLayout5_1_0_ch" -> <<"kL30", "kR30", "kC", "kLFE", "kL110", "kR110">>
    [] type = "kLayout5_1_2_ch" ->
         <<"kL30", "kR30", "kC", "kLFE", "kL110", "kR110", "kTL90", "kTR90">>
    [] type = "kLayout5_1_4_ch" ->
         <<"kL30", "kR30", "kC", "kLFE", "kL110", "kR110", "kTL45", "kTR45",
           "kTL135", "kTR135">>
    [] type = "kLayout7_1_0_ch" ->
         <<"kL30", "kR30", "kC", "kLFE", "kL90", "kR90", "kL135", "kR135">>
    [] type = "kLayout7_1_2_ch" ->
         <<"kL30", "kR30", "kC", "kLFE", "kL90", "kR90", "kL135", "kR135",
           "kTL90", "kTR90">>
    [] type = "kLayout7_1_4_ch" ->
         <<"kL30", "kR30", "kC", "kLFE", "kL90", "kR90", "kL135", "kR135",
           "kTL45", "kTR45", "kTL135", "kTR135">>
    [] type = "kLayout9_1_0_ch" ->
         <<"kL30", "kR30", "kC", "kLFE", "kL60", "kR60", "kL90", "kR90",
           "kL135", "kR135">>
    [] type = "kLayout9_1_2_ch" ->
         <<"kL30", "kR30", "kC", "kLFE", "kL60", "kR60", "kL90", "kR90",
           "kL135", "kR135", "kTL90", "kTR90">>
    [] type = "kLayout9_1_4_ch" ->
         <<"kL30", "kR30", "kC", "kLFE", "kL60", "kR60", "kL90", "kR90",
           "kL135", "kR135", "kTL45", "kTR45", "kTL135", "kTR135">>
    [] type = "kLayout9_1_6_ch" ->
         <<"kL30", "kR30", "kC", "kLFE", "kL60", "kR60", "kL90", "kR90",
           "kL135", "kR135", "kTL30", "kTR30", "kTL90", "kTR90", "kTL150",
           "kTR150">>

getLoudspeakerLayout(type) ==
  IF type \notin LoudspeakerLayoutTypes THEN <<>>
  ELSE [i \in 1..Len(layout_map(type)) |-> loudspeaker_map(layout_map(type)[i])]

-----------------------------------------------------------------------------
(* AudioElementConfig.                                                     *)

AmbisonicSceneInputChannel(id) == [id |-> id, input_channel_index |-> 0]

AudioObjectInputChannel(id, azimuth, elevation, distance) ==
  [id |-> id, input_channel_index |-> 0, gain |-> 1, azimuth |-> azimuth,
   elevation |-> elevation, distance |-> distance]

\* Channel i (0-based) of each list gets index first_channel + i.
SetFirstChannelIndex(config, first_channel) ==
  LET Reindex(channels) ==
        [i \in 1..Len(channels) |->
           [channels[i] EXCEPT !.input_channel_index = first_channel + (i - 1)]]
  IN [config EXCEPT
        !.first_channel_index = first_channel,
        !.ambisonic_channels = Reindex(config.ambisonic_channels),
        !.loudspeaker_channels = Reindex(config.loudspeaker_channels),
        !.object_channels = Reindex(config.object_channels)]

\* A configuration that recognises no type: no channels, filter order 0.
AudioElementConfig_UnknownType(type) ==
  [type |-> type, first_channel_index |-> 0, number_of_input_channels |-> 0,
   binaural_filters_ambisonic_order |-> 0, ambisonic_channels |-> <<>>,
   loudspeaker_channels |-> <<>>, object_channels |-> <<>>]

AudioElementConfig(type) ==
  LET empty == [type |-> type, first_channel_index |-> 0,
                number_of_input_channels |-> 0,
                binaural_filters_ambisonic_order |-> 0,
                ambisonic_channels |-> <<>>, loudspeaker_channels |-> <<>>,
                object_channels |-> <<>>]
      configured ==
        IF IsAmbisonicsType(type) THEN
          LET order == GetAmbisonicOrder(type)
              n == (order + 1) * (order + 1)
          IN [empty EXCEPT
                !.binaural_filters_ambisonic_order = order,
                !.number_of_input_channels = n,
                !.ambisonic_channels =
                   [i \in 1..n |-> AmbisonicSceneInputChannel(i - 1)]]
        ELSE IF IsLoudspeakerLayoutType(type) THEN
          [empty EXCEPT
             !.loudspeaker_channels = getLoudspeakerLayout(type),
             !.binaural_filters_ambisonic_order = kMaxSupportedAmbisonicOrder,
             !.number_of_input_channels = Len(getLoudspeakerLayout(type))]
        ELSE IF IsObjectType(type) THEN
          LET objects == IF type = "kObjectMono"
                         THEN <<AudioObjectInputChannel("kMono", 0, 0, 1)>>
                         ELSE <<>>
          IN [empty EXCEPT
                !.object_channels = objects,
                !.binaural_filters_ambisonic_order = kMaxSupportedAmbisonicOrder,
                !.number_of_input_channels = Len(objects)]
        ELSE empty
  IN SetFirstChannelIndex(configured, 0)

-----------------------------------------------------------------------------
(* Buffers and DSP objects.                                                *)

\* A released unique_ptr.
NULL == [null |-> TRUE]

\* A channel of silence: nothing encoded into it, no input added to it.
ZeroChannel == [enc |-> <<>>, amb |-> <<>>]

\* AudioBuffer(num_channels, num_frames): zero-initialised planar storage.
AudioBuffer(num_channels, num_frames) ==
  [num_channels |-> num_channels, num_frames |-> num_frames,
   data |-> [c \in 1..num_channels |-> ZeroChannel], rotated_by |-> "none"]

\* A Clear that leaves the samples of the last block in place.
Clear_KeepSamples(buffer) == buffer

\* AudioBuffer::Clear keeps the shape and zeroes the samples.
Clear(buffer) ==
  [buffer EXCEPT !.data = [c \in 1..buffer.num_channels |-> ZeroChannel],
                 !.rotated_by = "none"]

\* The sum written with = in place of +=: only the last element counts.
NumberOfInputChannels_LastOnly(elements) ==
  IF elements = <<>> THEN 0
  ELSE elements[Len(elements)].number_of_input_channels

RECURSIVE NumberOfInputChannels(_)
\* ObrImpl::GetNumberOfInputChannels over a given element list.
NumberOfInputChannels(elements) ==
  IF elements = <<>> THEN 0
  ELSE elements[1].number_of_input_channels + NumberOfInputChannels(Tail(elements))

GetNumberOfInputChannels == NumberOfInputChannels(audio_elements_)

GetNumberOfOutputChannels == kNumBinauralChannels

GetNumberOfAudioElements == Len(audio_elements_)

RECURSIVE SourceChannelIndices(_)
\* ObrImpl::GetAmbisonicEncoderSourceChannelIndices over a given element list.
SourceChannelIndices(elements) ==
  IF elements = <<>> THEN <<>>
  ELSE LET e == elements[1]
           own == IF IsLoudspeakerLayoutType(e.type) \/ IsObjectType(e.type)
                  THEN [i \in 1..e.number_of_input_channels |->
                          e.first_channel_index + (i - 1)]
                  ELSE <<>>
       IN own \o SourceChannelIndices(Tail(elements))

GetAmbisonicEncoderSourceChannelIndices == SourceChannelIndices(audio_elements_)

\* Exact fractions <<numerator, denominator>> in lowest terms.
RECURSIVE GCD(_, _)
GCD(a, b) == IF b = 0 THEN a ELSE GCD(b, a % b)

Rat(n, d) ==
  LET g == GCD(IF n < 0 THEN -n ELSE n, d)
  IN IF n = 0 THEN <<0, 1>> ELSE <<n \div g, d \div g>>

RatLess(a, b) == a[1] * b[2] < b[1] * a[2]
RatAdd(a, b) == Rat(a[1] * b[2] + b[1] * a[2], a[2] * b[2])
RatSub(a, b) == Rat(a[1] * b[2] - b[1] * a[2], a[2] * b[2])
RatMul(a, b) == Rat(a[1] * b[1], a[2] * b[2])
RatDiv(a, b) == Rat(a[1] * b[2], a[2] * b[1])
RatMax(a, b) == IF RatLess(a, b) THEN b ELSE a
Magnitude(a) == <<IF a[1] < 0 THEN -a[1] ELSE a[1], a[2]>>

\* The source tuple cached by the encoder for one input channel.
Source(gain, azimuth, elevation, distance) ==
  [gain |-> gain, azimuth |-> azimuth, elevation |-> elevation,
   distance |-> distance]

NoSource == [absent |-> TRUE]

ZeroColumn == [zero |-> TRUE]

\* overall_gain = gain / max(distance, 0.5) < 1e-6, in integers.
Muted(gain, distance) ==
  2 * gain * 1000000 < (IF 2 * distance > 1 THEN 2 * distance ELSE 1)

\* An overall gain with the minimum distance at 1 m.
OverallGain_MinimumOneMetre(gain, distance) ==
  Rat(gain, IF distance > 1 THEN distance ELSE 1)

\* float overall_gain = gain / std::max(distance, 0.5f), for whole gains and
\* distances.
OverallGain(gain, distance) ==
  Rat(2 * gain, IF 2 * distance > 1 THEN 2 * distance ELSE 1)

\* The column written by the loop over the output channels: the spherical
\* harmonic coefficients of (azimuth, elevation), kept as the direction they
\* are computed for, scaled by the overall gain.
EncodingColumn(gain, azimuth, elevation, distance) ==
  [overall_gain |-> OverallGain(gain, distance),
   azimuth |-> azimuth, elevation |-> elevation]

\* AmbisonicEncoder(number_of_input_channels, ambisonic_order)
AmbisonicEncoder(number_of_input_channels, ambisonic_order) ==
  [number_of_input_channels |-> number_of_input_channels,
   ambisonic_order |-> ambisonic_order,
   sources |-> [c \in 0..(number_of_input_channels - 1) |-> NoSource],
   encoding_matrix |-> [c \in 0..(number_of_input_channels - 1) |-> ZeroColumn]]

\* A SetSource that mutes the channel when it is handed the cached tuple.
SetSource_MuteOnRepeat(encoder, input_channel, gain, azimuth, elevation, distance) ==
  LET inserted == IF encoder.sources[input_channel] = NoSource
                  THEN Source(0, 0, 0, 0)
                  ELSE encoder.sources[input_channel]
      new == Source(gain, azimuth, elevation, distance)
  IN IF inserted = new
     THEN [encoder EXCEPT !.sources[input_channel] = inserted,
                          !.encoding_matrix[input_channel] = ZeroColumn]
     ELSE [encoder EXCEPT
             !.sources[input_channel] = new,
             !.encoding_matrix[input_channel] =
                IF Muted(gain, distance) THEN ZeroColumn
                ELSE EncodingColumn(gain, azimuth, elevation, distance)]

\* AmbisonicEncoder::SetSource: a new key is inserted as all zeros, an
\* identical tuple returns early, otherwise the column is recomputed.
SetSource(encoder, input_channel, gain, azimuth, elevation, distance) ==
  LET inserted == IF encoder.sources[input_channel] = NoSource
                  THEN Source(0, 0, 0, 0)
                  ELSE encoder.sources[input_channel]
      new == Source(gain, azimuth, elevation, distance)
  IN IF inserted = new
     THEN [encoder EXCEPT !.sources[input_channel] = inserted]
     ELSE [encoder EXCEPT
             !.sources[input_channel] = new,
             !.encoding_matrix[input_channel] =
                IF Muted(gain, distance) THEN ZeroColumn
                ELSE EncodingColumn(gain, azimuth, elevation, distance)]

\* A RemoveSource that erases the cache entry and leaves the column.
RemoveSource_KeepColumn(encoder, input_channel) ==
  [encoder EXCEPT !.sources[input_channel] = NoSource]

\* AmbisonicEncoder::RemoveSource: the cache entry is erased, the column muted.
RemoveSource(encoder, input_channel) ==
  [encoder EXCEPT !.sources[input_channel] = NoSource,
                  !.encoding_matrix[input_channel] = ZeroColumn]

RECURSIVE EncodedChannels(_)
\* The loudspeaker channels, then the object channels, of every element in
\* list order: the sources UpdateAmbisonicEncoder walks through.
EncodedChannels(elements) ==
  IF elements = <<>> THEN <<>>
  ELSE elements[1].loudspeaker_channels \o elements[1].object_channels
         \o EncodedChannels(Tail(elements))

\* The loop of ObrImpl::UpdateAmbisonicEncoder: the k-th channel of the walk is
\* handed to SetSource under input channel k - 1.  One SetSource call touches
\* the entry of its own input channel only, so the encoder after the loop is
\* assembled entry by entry.
SetSources(encoder, channels) ==
  LET set(c) == SetSource(encoder, c, 1, channels[c + 1].azimuth,
                          channels[c + 1].elevation, channels[c + 1].distance)
      walked(c) == c < Len(channels)
  IN [encoder EXCEPT
        !.sources = [c \in DOMAIN encoder.sources |->
                       IF walked(c) THEN set(c).sources[c]
                       ELSE encoder.sources[c]],
        !.encoding_matrix = [c \in DOMAIN encoder.encoding_matrix |->
                               IF walked(c) THEN set(c).encoding_matrix[c]
                               ELSE encoder.encoding_matrix[c]]]

\* ObrImpl::UpdateAmbisonicEncoder: status and resulting encoder.
UpdateAmbisonicEncoderStatus(encoder) ==
  IF encoder # NULL THEN "OK" ELSE "FAILED_PRECONDITION"

\* An update that encodes every source where its type first puts it.
UpdateAmbisonicEncoder_AtDefaultPositions(encoder, elements) ==
  IF encoder # NULL
    THEN SetSources(encoder,
                    EncodedChannels([i \in 1..Len(elements) |->
                                       AudioElementConfig(elements[i].type)]))
    ELSE encoder

UpdateAmbisonicEncoder(encoder, elements) ==
  IF encoder # NULL THEN SetSources(encoder, EncodedChannels(elements))
  ELSE encoder

\* Resampler::AreSampleRatesSupported
AreSampleRatesSupported(source, destination) ==
  <<source, destination>> \in
     {<<44100, 48000>>, <<48000, 44100>>, <<48000, 48000>>}

\* BinauralFiltersWrapper::GetFile("<order>OA_L" / "<order>OA_R") finds the key.
AssetFound(order) == order \in asset_orders

\* CreateShHrirsFromAssets / CreateShHrirsFromWav: what loading the SH-HRIRs
\* of one order does.
CreateShHrirsOutcome(order) ==
  IF ~AssetFound(order) THEN "DIE_IF_NULL"
  ELSE IF kHrirAssetSampleRate # sampling_rate_
          /\ ~AreSampleRatesSupported(kHrirAssetSampleRate, sampling_rate_)
       THEN "LOG_FATAL"
       ELSE "OK"

CreateShHrirsFromAssets(order) ==
  [num_channels |-> (order + 1) * (order + 1),
   sample_rate |-> sampling_rate_,
   resampled |-> kHrirAssetSampleRate # sampling_rate_]

AmbisonicRotator(order) == [order |-> order, last_rotation |-> "identity"]

AmbisonicBinauralDecoder(sh_hrirs_L, frames_per_buffer) ==
  [num_filters |-> sh_hrirs_L.num_channels,
   frames_per_buffer |-> frames_per_buffer, streamed |-> FALSE]

\* A limiter that is kept, envelope included, when one already exists.
PeakLimiter_KeepEnvelope(sampling_rate, release_ms) ==
  IF peak_limiter_ # NULL THEN peak_limiter_
  ELSE [sampling_rate |-> sampling_rate, release_ms |-> release_ms,
        processed |-> FALSE]

\* PeakLimiter(sample_rate, release_ms, ceiling_db): envelope at unity.
PeakLimiter(sampling_rate, release_ms) ==
  [sampling_rate |-> sampling_rate, release_ms |-> release_ms,
   processed |-> FALSE]

\* How ObrImpl::InitializeDsp ends for a given element list.
InitializeDspOutcome(elements) ==
  IF elements = <<>> THEN "FAILED_PRECONDITION"
  ELSE LET order == elements[1].binaural_filters_ambisonic_order IN
       IF order = 0 \/ order < kMinSupportedAmbisonicOrder
          \/ order > kMaxSupportedAmbisonicOrder THEN "CHECK_FAILED"
       ELSE IF NumberOfInputChannels(elements) = 0 THEN "FAILED_PRECONDITION"
       ELSE CreateShHrirsOutcome(order)

InitializeDspStatus(elements) ==
  LET outcome == InitializeDspOutcome(elements)
  IN IF outcome \in {"OK", "FAILED_PRECONDITION"} THEN outcome ELSE "ABORT"

\* ObrImpl::ResetDsp followed by the rest of ObrImpl::InitializeDsp.
InitializeDsp(elements) ==
  LET outcome == InitializeDspOutcome(elements)
      order == elements[1].binaural_filters_ambisonic_order
      indices == SourceChannelIndices(elements)
      new_encoder ==
        IF indices # <<>>
        THEN UpdateAmbisonicEncoder(AmbisonicEncoder(Len(indices), order), elements)
        ELSE NULL
      new_encoder_input ==
        IF indices # <<>>
        THEN AudioBuffer(Len(indices), buffer_size_per_channel_)
        ELSE ambisonic_encoder_input_buffer_
      hrirs == CreateShHrirsFromAssets(order)
  IN IF outcome \in {"FAILED_PRECONDITION", "CHECK_FAILED"}
     THEN /\ UNCHANGED dspVars
          /\ run' = IF outcome = "CHECK_FAILED" THEN "aborted" ELSE run
     ELSE /\ ambisonic_mix_bed_' =
               AudioBuffer((order + 1) * (order + 1), buffer_size_per_channel_)
          /\ ambisonic_encoder_' = new_encoder
          /\ ambisonic_encoder_input_buffer_' = new_encoder_input
          /\ ambisonic_rotator_' = AmbisonicRotator(order)
          /\ IF outcome = "OK"
             THEN /\ sh_hrirs_L_' = hrirs
                  /\ sh_hrirs_R_' = hrirs
                  /\ ambisonic_binaural_decoder_' =
                       AmbisonicBinauralDecoder(hrirs, buffer_size_per_channel_)
                  /\ peak_limiter_' = PeakLimiter(sampling_rate_, 50)
                  /\ run' = run
             ELSE /\ sh_hrirs_L_' = NULL
                  /\ sh_hrirs_R_' = NULL
                  /\ ambisonic_binaural_decoder_' = NULL
                  /\ peak_limiter_' = NULL
                  /\ run' = "aborted"

-----------------------------------------------------------------------------
(* The record of the last API call.                                        *)

NoShape == [in_channels |-> 0, in_frames |-> 0, out_null |-> FALSE,
            out_channels |-> 0, out_frames |-> 0]

\* The output buffer before anything was rendered into it.
NoOutput == [silent |-> TRUE]

Call(op, status) ==
  [op |-> op, type |-> "-", index |-> 0, position |-> <<0, 0, 0>>,
   shape |-> NoShape, status |-> status, stages |-> <<>>, output |-> NoOutput]

ConfigOps == {"AddAudioElement", "RemoveLastAudioElement", "UpdateObjectPosition"}

-----------------------------------------------------------------------------
(* ObrImpl: construction.                                                  *)

\* No limiter is exercised on its own.
LimiterIdle ==
  /\ peak_limiter = NULL
  /\ signal = <<>>
  /\ limiter_env = <<>>
  /\ limited = <<>>

\* No encoder is exercised on its own.
EncoderIdle ==
  /\ source_encoder = NULL
  /\ last_source_call = <<>>
  /\ encoder_call = [op |-> "none"]

\* No rotator is exercised on its own.
RotatorIdle ==
  /\ hoa_rotator = NULL
  /\ rotator_calls = <<>>

\* No FFT manager and no decoder is exercised on its own.
DecoderIdle ==
  /\ fft_manager_ = NULL
  /\ binaural_decoder = NULL
  /\ decoder_run = "running"

\* No WAV reader is exercised on its own.
WavIdle ==
  /\ wav_reader = NULL
  /\ wav_call = [op |-> "none"]

\* One thread at a time calls the renderer: nobody is inside a call.
ThreadsIdle ==
  /\ mutex_ = "free"
  /\ audio_thread = "idle"
  /\ config_thread = [pc |-> "idle", op |-> "none", before |-> <<>>]
  /\ process_view = [in_channels |-> 0]

\* ObrImpl::ObrImpl: no element, no DSP object, head tracking off.
Constructed ==
  /\ audio_elements_ = <<>>
  /\ head_tracking_enabled_ = FALSE
  /\ world_rotation_ = "identity"
  /\ ambisonic_binaural_decoder_ = NULL
  /\ sh_hrirs_L_ = NULL
  /\ sh_hrirs_R_ = NULL
  /\ ambisonic_encoder_ = NULL
  /\ peak_limiter_ = NULL
  /\ ambisonic_rotator_ = NULL
  /\ ambisonic_mix_bed_ = AudioBuffer(0, 0)
  /\ ambisonic_encoder_input_buffer_ = AudioBuffer(0, 0)
  /\ call = Call("ObrImpl", "OK")
  /\ run = "running"

Init ==
  /\ LimiterIdle
  /\ EncoderIdle
  /\ RotatorIdle
  /\ ThreadsIdle
  /\ DecoderIdle
  /\ WavIdle
  /\ buffer_size_per_channel_ \in BufferSizes
  /\ sampling_rate_ \in SamplingRates
  /\ asset_orders \in AssetBuilds
  /\ Constructed

\* A renderer that is constructed and then left alone.
RendererIdle ==
  /\ buffer_size_per_channel_ \in BufferSizes
  /\ sampling_rate_ = kHrirAssetSampleRate
  /\ asset_orders = 1..kMaxSupportedAmbisonicOrder
  /\ Constructed

configVars == <<buffer_size_per_channel_, sampling_rate_, asset_orders>>

-----------------------------------------------------------------------------
(* ObrImpl::AddAudioElement                                                *)

\* The same-type restriction left out.
AddTypeMismatch_Never(elements, type) == FALSE

\* The same-type restriction: only the last element's type is compared.
AddTypeMismatch(elements, type) ==
  elements # <<>> /\ elements[Len(elements)].type # type

\* The shift computed from the last element's channel count alone.
NextFirstChannelIndex_CountOnly(elements) ==
  elements[Len(elements)].number_of_input_channels

\* The first channel index given to an element appended to a non-empty list.
NextFirstChannelIndex(elements) ==
  elements[Len(elements)].first_channel_index
    + elements[Len(elements)].number_of_input_channels

\* The budget check with >= in place of >.
ExceedsInputChannels_OffByOne(elements, config) ==
  NumberOfInputChannels(elements) + config.number_of_input_channels
    >= kMaxSupportedNumInputChannels

\* The input channel budget check.
ExceedsInputChannels(elements, config) ==
  NumberOfInputChannels(elements) + config.number_of_input_channels
    > kMaxSupportedNumInputChannels

AddAudioElement(type) ==
  /\ run = "running"
  /\ Len(audio_elements_) < MaxElements
  /\ UNCHANGED <<configVars, unitVars, head_tracking_enabled_, world_rotation_>>
  /\ IF AddTypeMismatch(audio_elements_, type)
     THEN /\ call' = [Call("AddAudioElement", "FAILED_PRECONDITION")
                        EXCEPT !.type = type]
          /\ UNCHANGED <<audio_elements_, dspVars, run>>
     ELSE LET created == AudioElementConfig(type)
              audio_element_config ==
                IF audio_elements_ # <<>>
                THEN SetFirstChannelIndex(created,
                                          NextFirstChannelIndex(audio_elements_))
                ELSE created
          IN IF ExceedsInputChannels(audio_elements_, audio_element_config)
             THEN /\ call' = [Call("AddAudioElement", "RESOURCE_EXHAUSTED")
                                EXCEPT !.type = type]
                  /\ UNCHANGED <<audio_elements_, dspVars, run>>
             ELSE /\ audio_elements_' = Append(audio_elements_, audio_element_config)
                  /\ InitializeDsp(audio_elements_')
                  /\ call' = [Call("AddAudioElement",
                                   InitializeDspStatus(audio_elements_'))
                                EXCEPT !.type = type]

-----------------------------------------------------------------------------
(* ObrImpl::RemoveLastAudioElement                                         *)

\* An empty list treated as nothing to do.
RemoveFromEmptyStatus_Ok == "OK"

\* The status returned when the list is empty on entry.
RemoveFromEmptyStatus == "FAILED_PRECONDITION"

RemoveLastAudioElement ==
  /\ run = "running"
  /\ UNCHANGED <<configVars, unitVars, head_tracking_enabled_, world_rotation_>>
  /\ IF audio_elements_ = <<>>
     THEN /\ call' = Call("RemoveLastAudioElement", RemoveFromEmptyStatus)
          /\ UNCHANGED <<audio_elements_, dspVars, run>>
     ELSE /\ audio_elements_' = SubSeq(audio_elements_, 1, Len(audio_elements_) - 1)
          /\ IF audio_elements_' = <<>>
             THEN /\ call' = Call("RemoveLastAudioElement", "OK")
                  /\ UNCHANGED <<dspVars, run>>
             ELSE /\ InitializeDsp(audio_elements_')
                  /\ call' = Call("RemoveLastAudioElement",
                                  IF InitializeDspStatus(audio_elements_') # "OK"
                                  THEN InitializeDspStatus(audio_elements_')
                                  ELSE UpdateAmbisonicEncoderStatus(ambisonic_encoder_'))

-----------------------------------------------------------------------------
(* ObrImpl::UpdateObjectPosition                                           *)

\* The loop body without its SetElevation and SetDistance calls.
SetObjectPositions_AzimuthOnly(element, azimuth, elevation, distance) ==
  [element EXCEPT !.object_channels =
     [i \in 1..Len(element.object_channels) |->
        [element.object_channels[i] EXCEPT !.azimuth = azimuth]]]

\* Every object channel of one element gets the same coordinates.
SetObjectPositions(element, azimuth, elevation, distance) ==
  [element EXCEPT !.object_channels =
     [i \in 1..Len(element.object_channels) |->
        [element.object_channels[i] EXCEPT !.azimuth = azimuth,
                                           !.elevation = elevation,
                                           !.distance = distance]]]

UpdateObjectPosition(audio_element_index, azimuth, elevation, distance) ==
  /\ run = "running"
  /\ UNCHANGED <<configVars, unitVars, head_tracking_enabled_, world_rotation_, run,
                 ambisonic_binaural_decoder_, sh_hrirs_L_, sh_hrirs_R_,
                 peak_limiter_, ambisonic_rotator_, ambisonic_mix_bed_,
                 ambisonic_encoder_input_buffer_>>
  /\ LET called(status) ==
           [Call("UpdateObjectPosition", status)
              EXCEPT !.index = audio_element_index,
                     !.position = <<azimuth, elevation, distance>>]
     IN IF audio_element_index >= Len(audio_elements_)
        THEN /\ call' = called("INVALID_ARGUMENT")
             /\ UNCHANGED <<audio_elements_, ambisonic_encoder_>>
        ELSE IF audio_elements_[audio_element_index + 1].object_channels = <<>>
        THEN /\ call' = called("FAILED_PRECONDITION")
             /\ UNCHANGED <<audio_elements_, ambisonic_encoder_>>
        ELSE /\ audio_elements_' =
                  [audio_elements_ EXCEPT ![audio_element_index + 1] =
                     SetObjectPositions(@, azimuth, elevation, distance)]
             /\ ambisonic_encoder_' =
                  UpdateAmbisonicEncoder(ambisonic_encoder_, audio_elements_')
             /\ call' = called(UpdateAmbisonicEncoderStatus(ambisonic_encoder_))

-----------------------------------------------------------------------------
(* ObrImpl::EnableHeadTracking, ObrImpl::SetHeadRotation                   *)

EnableHeadTracking(enable_head_tracking) ==
  /\ run = "running"
  /\ head_tracking_enabled_' = enable_head_tracking
  /\ call' = Call("EnableHeadTracking", "OK")
  /\ UNCHANGED <<configVars, unitVars, audio_elements_, world_rotation_, dspVars, run>>

SetHeadRotation(rotation) ==
  /\ run = "running"
  /\ world_rotation_' = rotation
  /\ call' = Call("SetHeadRotation", "OK")
  /\ UNCHANGED <<configVars, unitVars, audio_elements_, head_tracking_enabled_, dspVars, run>>

-----------------------------------------------------------------------------
(* ObrImpl::Process                                                        *)

\* The CHECKs of Process without the one on the output channel count.
ProcessChecks_NoOutputChannels(shape) ==
  /\ shape.in_channels = NumberOfInputChannels(audio_elements_)
  /\ shape.in_frames = buffer_size_per_channel_
  /\ ~shape.out_null
  /\ shape.out_frames = buffer_size_per_channel_

\* The five CHECKs at the top of Process.
ProcessChecks(shape) ==
  /\ shape.in_channels = GetNumberOfInputChannels
  /\ shape.in_frames = buffer_size_per_channel_
  /\ ~shape.out_null
  /\ shape.out_channels = GetNumberOfOutputChannels
  /\ shape.out_frames = buffer_size_per_channel_

\* The copy of the selected input channels into the encoder input buffer.
GatherEncoderInput(buffer, indices) ==
  [buffer EXCEPT !.data =
     [c \in 1..buffer.num_channels |->
        IF c <= Len(indices) THEN [enc |-> <<>>, amb |-> <<indices[c]>>]
        ELSE buffer.data[c]]]

\* AmbisonicEncoder::ProcessPlanarAudioData: every bed channel is overwritten
\* by the encoding matrix applied to the gathered input channels; a term of
\* the product is an input channel together with the matrix column it is
\* weighted by.
ProcessPlanarAudioData(encoder, bed, indices) ==
  [bed EXCEPT !.data = [c \in 1..bed.num_channels |->
                          [enc |-> [k \in 1..Len(indices) |->
                                      [input |-> indices[k],
                                       column |-> encoder.encoding_matrix[k - 1]]],
                           amb |-> <<>>]],
              !.rotated_by = "none"]

RECURSIVE CopyAmbisonicInput(_, _)
\* Channel c of every Ambisonic element is added to bed channel c.
CopyAmbisonicInput(bed, elements) ==
  IF elements = <<>> THEN bed
  ELSE LET e == elements[1]
           added ==
             IF IsAmbisonicsType(e.type)
             THEN [bed EXCEPT !.data =
                     [c \in 1..bed.num_channels |->
                        IF c <= e.number_of_input_channels
                        THEN [bed.data[c] EXCEPT
                                !.amb = Append(@, e.first_channel_index + (c - 1))]
                        ELSE bed.data[c]]]
             ELSE bed
       IN CopyAmbisonicInput(added, Tail(elements))

\* Where a rotation lies on a line of rotations about one axis, in units of
\* the rotation of kSmallRotation: kSmallRotation and kLargeRotation are the
\* rotations of RotationThresholdTest.
RotationAngle(rotation) ==
  CASE rotation = "identity" -> 0
    [] rotation = "kSmallRotation" -> 1
    [] rotation = "kLargeRotation" -> 100
    [] rotation = "near_kLargeRotation" -> 101
    [] rotation = "quarter_turn_z" -> 500

\* How far two rotations are apart.
AngularDifference(a, b) ==
  IF RotationAngle(a) >= RotationAngle(b)
  THEN RotationAngle(a) - RotationAngle(b)
  ELSE RotationAngle(b) - RotationAngle(a)

\* The quantization threshold: RotationThresholdTest has kSmallRotation below
\* it and kLargeRotation above it, seen from the identity.
kRotationQuantization == 10

\* A rotator that rotates on every change of the rotation, however small.
RotatorApplies_AnyChange(rotator, rotation) == rotation # rotator.last_rotation

\* AmbisonicRotator::Process: a rotation closer than the threshold to the last
\* one applied is reported as "not applied" and leaves the bed alone.
RotatorApplies(rotator, rotation) ==
  AngularDifference(rotation, rotator.last_rotation) >= kRotationQuantization

\* AmbisonicRotator::Process(rotation, bed, &bed) as ObrImpl::Process calls it:
\* what it returns, the bed and the rotator it leaves.
RotatorProcess(rotator, rotation, bed) ==
  IF RotatorApplies(rotator, rotation)
  THEN [applied |-> TRUE,
        bed |-> [bed EXCEPT !.rotated_by = rotation],
        rotator |-> [rotator EXCEPT !.last_rotation = rotation]]
  ELSE [applied |-> FALSE, bed |-> bed, rotator |-> rotator]

\* The CHECKs at the top of AmbisonicBinauralDecoder::ProcessAudioBuffer.
DecoderChecks(decoder, bed, shape) ==
  /\ bed.num_channels = decoder.num_filters
  /\ ~shape.out_null
  /\ bed.num_frames = shape.out_frames
  /\ shape.out_channels = kNumBinauralChannels

\* The rotate stage is entered when head tracking is enabled, rotating or not.
RotateStageRuns_Always == TRUE

\* The rotate stage is entered only when head tracking is enabled.
RotateStageRuns == head_tracking_enabled_

\* The stage at which Process stops, "none" when it runs to the end.
ProcessStopsAt(shape, indices) ==
  IF indices # <<>> /\ ambisonic_encoder_ = NULL THEN "encoder_null"
  ELSE IF RotateStageRuns /\ ambisonic_rotator_ = NULL THEN "rotator_null"
  ELSE IF ambisonic_binaural_decoder_ = NULL THEN "decoder_null"
  ELSE IF ~DecoderChecks(ambisonic_binaural_decoder_, ambisonic_mix_bed_, shape)
       THEN "decoder_check"
  ELSE IF peak_limiter_ = NULL THEN "limiter_null"
  ELSE "none"

\* The stages Process has completed, in the order of its statements, when it
\* stops at the given place.
StagesRun(stop) ==
  LET rotate == IF RotateStageRuns THEN <<"rotate">> ELSE <<>>
  IN IF stop = "encoder_null" THEN <<>>
     ELSE IF stop = "rotator_null" THEN <<"encode">>
     ELSE IF stop \in {"decoder_null", "decoder_check"} THEN <<"encode">> \o rotate
     ELSE IF stop = "limiter_null" THEN <<"encode">> \o rotate \o <<"decode">>
     ELSE <<"encode">> \o rotate \o <<"decode", "limit">>

\* AmbisonicBinauralDecoder::ProcessAudioBuffer: the stereo block convolved
\* from the bed it is given and from what its delay lines hold.
ProcessAudioBuffer(decoder, bed) ==
  [decoded |-> bed.data, rotated_by |-> bed.rotated_by,
   delay_lines_used |-> decoder.streamed]

\* PeakLimiter::Process on the decoder's block, in place, starting from the
\* envelope the limiter carries.
LimiterProcess(limiter, stereo) ==
  [limited |-> stereo, envelope_carried |-> limiter.processed]

Process(shape) ==
  /\ run = "running"
  /\ UNCHANGED <<configVars, unitVars, audio_elements_, head_tracking_enabled_,
                 world_rotation_, sh_hrirs_L_, sh_hrirs_R_, ambisonic_encoder_>>
  /\ IF ~ProcessChecks(shape)
     THEN /\ run' = "aborted"
          /\ call' = [Call("Process", "ABORT") EXCEPT !.shape = shape]
          /\ UNCHANGED <<ambisonic_binaural_decoder_, peak_limiter_,
                         ambisonic_rotator_, ambisonic_mix_bed_,
                         ambisonic_encoder_input_buffer_>>
     ELSE LET indices == GetAmbisonicEncoderSourceChannelIndices
              stop == ProcessStopsAt(shape, indices)
              encoded ==
                IF indices # <<>>
                THEN ProcessPlanarAudioData(ambisonic_encoder_,
                                            ambisonic_mix_bed_, indices)
                ELSE Clear(ambisonic_mix_bed_)
              mixed == CopyAmbisonicInput(encoded, audio_elements_)
              rotates == /\ RotateStageRuns
                         /\ RotatorApplies(ambisonic_rotator_, world_rotation_)
              rotated == IF rotates
                         THEN [mixed EXCEPT !.rotated_by = world_rotation_]
                         ELSE mixed
          IN /\ ambisonic_encoder_input_buffer_' =
                  IF indices # <<>>
                  THEN GatherEncoderInput(ambisonic_encoder_input_buffer_, indices)
                  ELSE ambisonic_encoder_input_buffer_
             /\ IF stop = "encoder_null"
                THEN UNCHANGED <<ambisonic_mix_bed_, ambisonic_rotator_>>
                ELSE IF stop = "rotator_null"
                THEN /\ ambisonic_mix_bed_' = mixed
                     /\ UNCHANGED ambisonic_rotator_
                ELSE /\ ambisonic_mix_bed_' = rotated
                     /\ ambisonic_rotator_' =
                          IF rotates
                          THEN [ambisonic_rotator_ EXCEPT
                                  !.last_rotation = world_rotation_]
                          ELSE ambisonic_rotator_
             /\ ambisonic_binaural_decoder_' =
                  IF stop \in {"limiter_null", "none"}
                  THEN [ambisonic_binaural_decoder_ EXCEPT !.streamed = TRUE]
                  ELSE ambisonic_binaural_decoder_
             /\ peak_limiter_' =
                  IF stop = "none"
                  THEN [peak_limiter_ EXCEPT !.processed = TRUE]
                  ELSE peak_limiter_
             /\ run' \in (IF stop = "none" THEN {"running"}
                          ELSE IF stop = "decoder_check" THEN {"aborted"}
                          ELSE {"aborted", "undefined"})
             /\ call' = [Call("Process",
                              IF stop = "none" THEN "RENDERED"
                              ELSE IF run' = "undefined" THEN "UNDEFINED"
                              ELSE "ABORT")
                           EXCEPT !.shape = shape,
                                  !.stages = StagesRun(stop),
                                  !.output =
                                    IF stop = "none"
                                    THEN LimiterProcess(
                                           peak_limiter_,
                                           ProcessAudioBuffer(
                                             ambisonic_binaural_decoder_, rotated))
                                    ELSE IF stop = "limiter_null"
                                    THEN ProcessAudioBuffer(
                                           ambisonic_binaural_decoder_, rotated)
                                    ELSE NoOutput]

\* The buffer shapes a caller hands to Process: the shape the renderer is
\* configured for, and that shape with one dimension changed.
Shapes ==
  LET right == [in_channels |-> GetNumberOfInputChannels,
                in_frames |-> buffer_size_per_channel_,
                out_null |-> FALSE,
                out_channels |-> kNumBinauralChannels,
                out_frames |-> buffer_size_per_channel_]
  IN {right,
      [right EXCEPT !.in_channels = 0],
      [right EXCEPT !.in_channels = @ + 1],
      [right EXCEPT !.in_frames = @ + 1],
      [right EXCEPT !.out_null = TRUE],
      [right EXCEPT !.out_channels = @ + 1],
      [right EXCEPT !.out_frames = @ + 1]}

-----------------------------------------------------------------------------
(* The renderer as a state machine.                                        *)

Next ==
  \/ \E type \in AddedTypes : AddAudioElement(type)
  \/ RemoveLastAudioElement
  \/ \E index \in 0..MaxElements, position \in Positions :
       UpdateObjectPosition(index, position[1], position[2], position[3])
  \/ \E enable \in BOOLEAN : EnableHeadTracking(enable)
  \/ \E rotation \in Rotations : SetHeadRotation(rotation)
  \/ \E shape \in Shapes : Process(shape)

Spec == Init /\ [][Next]_vars

-----------------------------------------------------------------------------
(* Properties of the renderer facade.                                      *)

\* The kind of an element type: Ambisonic scene, loudspeaker layout or object.
KindOf(type) ==
  IF type \in AmbisonicsTypes THEN "Ambisonics"
  ELSE IF type \in LoudspeakerLayoutTypes THEN "Loudspeaker"
  ELSE IF type \in ObjectTypes THEN "Object"
  ELSE "Unknown"

\* The input channel count each element type stands for: (N+1)^2 for order
\* N, one per loudspeaker of a layout, one for a mono object.
NominalChannels(type) ==
  CASE type = "k1OA" -> 4 [] type = "k2OA" -> 9 [] type = "k3OA" -> 16
    [] type = "k4OA" -> 25 [] type = "k5OA" -> 36 [] type = "k6OA" -> 49
    [] type = "k7OA" -> 64
    [] type = "kLayoutMono" -> 1 [] type = "kLayoutStereo" -> 2
    [] type = "kLayout3_1_2_ch" -> 6 [] type = "kLayout5_1_0_ch" -> 6
    [] type = "kLayout5_1_2_ch" -> 8 [] type = "kLayout5_1_4_ch" -> 10
    [] type = "kLayout7_1_0_ch" -> 8 [] type = "kLayout7_1_2_ch" -> 10
    [] type = "kLayout7_1_4_ch" -> 12 [] type = "kLayout9_1_0_ch" -> 10
    [] type = "kLayout9_1_2_ch" -> 12 [] type = "kLayout9_1_4_ch" -> 14
    [] type = "kLayout9_1_6_ch" -> 16
    [] type = "kObjectMono" -> 1
    [] OTHER -> 0

RECURSIVE SumNominalChannels(_)
SumNominalChannels(elements) ==
  IF elements = <<>> THEN 0
  ELSE NominalChannels(elements[1].type) + SumNominalChannels(Tail(elements))

AllButLast(elements) == SubSeq(elements, 1, Len(elements) - 1)

\* Every two elements of the list have the same kind.
AllSameKind ==
  \A i, j \in 1..Len(audio_elements_) :
     KindOf(audio_elements_[i].type) = KindOf(audio_elements_[j].type)

\* Some element of the list has another kind than the given type.
DiffersInKind(type) ==
  \E i \in 1..Len(audio_elements_) :
     KindOf(audio_elements_[i].type) # KindOf(type)

\* C1: all elements of the list have the same kind at all times, and
\* AddAudioElement with a type whose kind differs from an existing element
\* returns an error and appends nothing.
C1_SameKind ==
  /\ []AllSameKind
  /\ [][(call'.op = "AddAudioElement" /\ DiffersInKind(call'.type))
        => (/\ call'.status = "FAILED_PRECONDITION"
            /\ audio_elements_' = audio_elements_)]_vars

\* C1 witness: an Add of a loudspeaker layout was refused on a list of
\* Ambisonic elements.
C1_Witness ==
  /\ call.op = "AddAudioElement"
  /\ call.status = "FAILED_PRECONDITION"
  /\ audio_elements_ # <<>>
  /\ KindOf(audio_elements_[1].type) = "Ambisonics"
  /\ KindOf(call.type) = "Loudspeaker"

\* C2 as stated: AddAudioElement returns RESOURCE_EXHAUSTED and appends
\* nothing exactly when the current total plus the new element's channel
\* count exceeds the maximum.
C2_ExhaustedExactlyWhenOver ==
  [][call'.op = "AddAudioElement"
     => ((call'.status = "RESOURCE_EXHAUSTED" /\ audio_elements_' = audio_elements_)
          <=> (SumNominalChannels(audio_elements_) + NominalChannels(call'.type)
                 > kMaxSupportedNumInputChannels))]_vars

\* C2 amended: AddAudioElement returns RESOURCE_EXHAUSTED and appends nothing
\* exactly when the new type passes the same-type check (the list is empty
\* or its last element has that type) and the current total plus the new
\* element's channel count exceeds the maximum; the total never exceeds it.
C2_ExhaustedWhenSameTypeOver ==
  /\ [](GetNumberOfInputChannels <= kMaxSupportedNumInputChannels)
  /\ [][call'.op = "AddAudioElement"
        => ((call'.status = "RESOURCE_EXHAUSTED" /\ audio_elements_' = audio_elements_)
             <=> (/\ \/ audio_elements_ = <<>>
                     \/ audio_elements_[Len(audio_elements_)].type = call'.type
                  /\ SumNominalChannels(audio_elements_) + NominalChannels(call'.type)
                       > kMaxSupportedNumInputChannels))]_vars

\* C2 witness: a third 64-channel element was refused for lack of channels.
C2_Witness ==
  /\ call.op = "AddAudioElement"
  /\ call.status = "RESOURCE_EXHAUSTED"
  /\ Len(audio_elements_) = 2
  /\ GetNumberOfInputChannels = kMaxSupportedNumInputChannels

\* C3: the input channel count is the sum of the channel counts of the
\* elements in the list (0 when empty, 16 for one k3OA) and the output
\* channel count is 2.
C3_InputChannelSum ==
  /\ GetNumberOfInputChannels = SumNominalChannels(audio_elements_)
  /\ audio_elements_ = <<>> => GetNumberOfInputChannels = 0
  /\ (Len(audio_elements_) = 1 /\ audio_elements_[1].type = "k3OA")
       => GetNumberOfInputChannels = 16
  /\ GetNumberOfOutputChannels = 2

\* C3 witness: two k3OA elements, one added and one left after a removal
\* of a third.
C3_Witness ==
  /\ Len(audio_elements_) = 2
  /\ audio_elements_[1].type = "k3OA"
  /\ GetNumberOfInputChannels = 32
  /\ call.op = "RemoveLastAudioElement"

\* C4: element i starts at the sum of the channel counts of the elements
\* before it, the ranges are contiguous and cover [0, total), and every
\* channel descriptor's index is its element's first index plus its position.
C4_ContiguousRanges ==
  /\ \A i \in 1..Len(audio_elements_) :
       LET e == audio_elements_[i]
           Positioned(channels) ==
             \A k \in 1..Len(channels) :
                channels[k].input_channel_index = e.first_channel_index + (k - 1)
       IN /\ e.first_channel_index =
               SumNominalChannels(SubSeq(audio_elements_, 1, i - 1))
          /\ Positioned(e.ambisonic_channels)
          /\ Positioned(e.loudspeaker_channels)
          /\ Positioned(e.object_channels)
          /\ Len(e.ambisonic_channels) + Len(e.loudspeaker_channels)
               + Len(e.object_channels) = e.number_of_input_channels
  /\ audio_elements_ # <<>> =>
       LET last == audio_elements_[Len(audio_elements_)]
       IN last.first_channel_index + last.number_of_input_channels
            = GetNumberOfInputChannels

\* C4 witness: a third element, starting after the two before it.
C4_Witness ==
  /\ Len(audio_elements_) = 3
  /\ audio_elements_[3].first_channel_index
       = 2 * audio_elements_[1].number_of_input_channels
  /\ audio_elements_[3].first_channel_index > 0
  /\ audio_elements_[3].loudspeaker_channels # <<>>

\* The DSP objects as InitializeDsp leaves them for a list of elements.
FreshDsp(elements) ==
  LET order == elements[1].binaural_filters_ambisonic_order IN
  /\ ambisonic_binaural_decoder_ # NULL
  /\ ~ambisonic_binaural_decoder_.streamed
  /\ peak_limiter_ # NULL
  /\ ~peak_limiter_.processed
  /\ ambisonic_rotator_ = AmbisonicRotator(order)
  /\ ambisonic_mix_bed_ =
       AudioBuffer((order + 1) * (order + 1), buffer_size_per_channel_)

\* C5: RemoveLastAudioElement on a list of n >= 1 elements of any kind
\* returns OK, leaves the first n-1 elements in order, and re-initializes
\* the DSP when one or more remain.
C5_RemoveLastReturnsOk ==
  [][(call'.op = "RemoveLastAudioElement" /\ audio_elements_ # <<>>)
     => (/\ call'.status = "OK"
         /\ audio_elements_' = AllButLast(audio_elements_)
         /\ audio_elements_' # <<>> => FreshDsp(audio_elements_)')]_vars

\* C6: RemoveLastAudioElement on an empty list returns FAILED_PRECONDITION
\* and leaves the element list, the input channel count and the DSP state
\* unchanged.
C6_RemoveFromEmpty ==
  [][(call'.op = "RemoveLastAudioElement" /\ audio_elements_ = <<>>)
     => (/\ call'.status = "FAILED_PRECONDITION"
         /\ audio_elements_' = audio_elements_
         /\ GetNumberOfInputChannels' = GetNumberOfInputChannels
         /\ dspVars' = dspVars
         /\ run' = run)]_vars

\* C6 witness: a removal was refused on a renderer emptied after use, whose
\* DSP objects are still there.
C6_Witness ==
  /\ call.op = "RemoveLastAudioElement"
  /\ call.status = "FAILED_PRECONDITION"
  /\ audio_elements_ = <<>>
  /\ ambisonic_binaural_decoder_ # NULL

\* C7: Process called with an empty element list is rejected: the program
\* stops and nothing is rendered, whether no element was ever added or all
\* were removed.
C7_EmptyProcessRejected ==
  [][(call'.op = "Process" /\ audio_elements_ = <<>>)
     => (run' # "running" /\ call'.status # "RENDERED")]_vars

\* The buffers handed to Process do not have the configured shape.
ShapeMismatch(shape) ==
  \/ shape.in_channels # SumNominalChannels(audio_elements_)
  \/ shape.in_frames # buffer_size_per_channel_
  \/ shape.out_frames # buffer_size_per_channel_
  \/ shape.out_null
  \/ shape.out_channels # 2

\* C8: Process aborts, before touching any DSP state, whenever the input
\* channel count, the input or output frame count or the output channel
\* count is wrong or the output pointer is null.
C8_ProcessShapeAbort ==
  [][(call'.op = "Process" /\ ShapeMismatch(call'.shape))
     => (/\ run' = "aborted"
         /\ dspVars' = dspVars
         /\ audio_elements_' = audio_elements_)]_vars

\* C8 witness: Process aborted on a three-channel output buffer with the
\* decoder in place.
C8_Witness ==
  /\ call.op = "Process"
  /\ run = "aborted"
  /\ call.shape.out_channels = 3
  /\ audio_elements_ # <<>>
  /\ ambisonic_binaural_decoder_ # NULL

\* C9: a configuration call that returns a non-OK status leaves the element
\* list, the input channel count and the DSP objects as they were.
C9_FailureLeavesState ==
  [][(call'.op \in ConfigOps /\ call'.status \notin {"OK", "ABORT"})
     => (/\ audio_elements_' = audio_elements_
         /\ GetNumberOfInputChannels' = GetNumberOfInputChannels
         /\ dspVars' = dspVars)]_vars

\* C10: every configuration error is reported as an error status; no
\* configuration call aborts the program.
C10_NoConfigAbort ==
  call.op \in ConfigOps =>
    (/\ run = "running"
     /\ call.status \in {"OK", "FAILED_PRECONDITION", "RESOURCE_EXHAUSTED",
                         "INVALID_ARGUMENT"})

\* The stages of a Process call that runs to the end, given the head-tracking
\* flag it was called under.
ExpectedStages(head_tracking) ==
  <<"encode">> \o (IF head_tracking THEN <<"rotate">> ELSE <<>>)
               \o <<"decode", "limit">>

\* s is an initial part of t.
IsPrefix(s, t) == Len(s) <= Len(t) /\ SubSeq(t, 1, Len(s)) = s

\* C13: every Process call runs its stages in the order encode, rotate,
\* decode, limit; the rotate stage runs exactly when head tracking is enabled;
\* the decoder consumes the bed as the encode and rotate stages left it, and
\* the limiter, fed with the decoder's block, is the last stage.
C13_StageOrder ==
  [][call'.op = "Process" =>
       /\ IsPrefix(call'.stages, ExpectedStages(head_tracking_enabled_))
       /\ call'.status = "RENDERED" =>
            /\ call'.stages = ExpectedStages(head_tracking_enabled_)
            /\ call'.stages[Len(call'.stages)] = "limit"
            /\ call'.output.limited =
                 ProcessAudioBuffer(ambisonic_binaural_decoder_, ambisonic_mix_bed_')
            /\ ~head_tracking_enabled_ => ambisonic_mix_bed_'.rotated_by = "none"]_vars

\* C13 witness: a block rendered through all four stages, the bed rotated
\* before it was decoded.
C13_Witness ==
  /\ call.op = "Process"
  /\ call.status = "RENDERED"
  /\ call.stages = <<"encode", "rotate", "decode", "limit">>
  /\ call.output.limited.rotated_by = "quarter_turn_z"

\* The list is non-empty and holds Ambisonic elements only.
AmbisonicConfiguration ==
  /\ audio_elements_ # <<>>
  /\ \A i \in 1..Len(audio_elements_) : IsAmbisonicsType(audio_elements_[i].type)

\* C14 as stated: for a configuration of Ambisonic elements the bed handed
\* to the rotate/decode stage is the input, channel for channel, with nothing
\* from the encoder and nothing left from earlier blocks.
C14_BedEqualsInput ==
  [][(call'.op = "Process" /\ call'.stages # <<>> /\ AmbisonicConfiguration)
     => \A c \in 1..ambisonic_mix_bed_'.num_channels :
           ambisonic_mix_bed_'.data[c] = [enc |-> <<>>, amb |-> <<c - 1>>]]_vars

\* C14 amended: for a configuration of Ambisonic elements, bed channel c
\* handed to the rotate/decode stage is the sum over the elements of each
\* element's own channel c of the input (the input itself for one element),
\* with nothing from the encoder and nothing left from earlier blocks.
C14_BedSumsElements ==
  [][(call'.op = "Process" /\ call'.stages # <<>> /\ AmbisonicConfiguration)
     => /\ ambisonic_mix_bed_'.num_channels
             = audio_elements_[1].number_of_input_channels
        /\ \A c \in 1..ambisonic_mix_bed_'.num_channels :
              ambisonic_mix_bed_'.data[c] =
                [enc |-> <<>>,
                 amb |-> [k \in 1..Len(audio_elements_) |->
                            audio_elements_[k].first_channel_index + (c - 1)]]
        /\ Len(audio_elements_) = 1 =>
              \A c \in 1..ambisonic_mix_bed_'.num_channels :
                 ambisonic_mix_bed_'.data[c] = [enc |-> <<>>, amb |-> <<c - 1>>]]_vars

\* C14 witness: a second block rendered from two first-order scenes.
C14_Witness ==
  /\ call.op = "Process"
  /\ call.status = "RENDERED"
  /\ Len(audio_elements_) = 2
  /\ audio_elements_[1].type = "k1OA"
  /\ call.output.envelope_carried
  /\ ambisonic_mix_bed_.data[1].amb = <<0, 4>>

\* The encoder input channel under which UpdateAmbisonicEncoder registers
\* object channel j of element k.
EncoderIndexOf(elements, k, j) ==
  Len(EncodedChannels(SubSeq(elements, 1, k - 1)))
    + Len(elements[k].loudspeaker_channels) + (j - 1)

\* C15: a successful UpdateObjectPosition(i, a, e, d) sets (a, e, d) on every
\* object channel of element i and changes nothing else in the list, and the
\* encoder's source entry of each of those channels then holds (a, e, d); an
\* index past the end gives INVALID_ARGUMENT and an element without object
\* channels gives FAILED_PRECONDITION, both leaving the list alone.
C15_UpdateObjectPosition ==
  [][call'.op = "UpdateObjectPosition" =>
       LET i == call'.index + 1
           a == call'.position[1]
           e == call'.position[2]
           d == call'.position[3]
       IN /\ i > Len(audio_elements_) =>
               /\ call'.status = "INVALID_ARGUMENT"
               /\ audio_elements_' = audio_elements_
          /\ (i <= Len(audio_elements_)
                /\ audio_elements_[i].object_channels = <<>>) =>
               /\ call'.status = "FAILED_PRECONDITION"
               /\ audio_elements_' = audio_elements_
          /\ call'.status = "OK" =>
               /\ i <= Len(audio_elements_)
               /\ audio_elements_[i].object_channels # <<>>
               /\ Len(audio_elements_') = Len(audio_elements_)
               /\ \A k \in 1..Len(audio_elements_) :
                     k # i => audio_elements_'[k] = audio_elements_[k]
               /\ [audio_elements_'[i] EXCEPT !.object_channels = <<>>]
                    = [audio_elements_[i] EXCEPT !.object_channels = <<>>]
               /\ Len(audio_elements_'[i].object_channels)
                    = Len(audio_elements_[i].object_channels)
               /\ \A j \in 1..Len(audio_elements_'[i].object_channels) :
                     LET ch == audio_elements_'[i].object_channels[j]
                         was == audio_elements_[i].object_channels[j]
                     IN /\ ch = [was EXCEPT !.azimuth = a, !.elevation = e,
                                            !.distance = d]
                        /\ ambisonic_encoder_'.sources[
                              EncoderIndexOf(audio_elements_', i, j)]
                             = Source(1, a, e, d)]_vars

\* C15 witness: the second of two objects was moved, the first one was not.
C15_Witness ==
  /\ call.op = "UpdateObjectPosition"
  /\ call.status = "OK"
  /\ call.index = 1
  /\ call.position = <<90, 30, 2>>
  /\ Len(audio_elements_) = 2
  /\ audio_elements_[2].object_channels[1].azimuth = 90
  /\ audio_elements_[1].object_channels[1].azimuth # 90
  /\ ambisonic_encoder_.sources[1] = Source(1, 90, 30, 2)

\* Nothing of an earlier block or an earlier configuration is left in the DSP
\* objects: each is as its constructor leaves it for the current list.
NothingCarriedOver ==
  LET order == audio_elements_[1].binaural_filters_ambisonic_order
      indices == GetAmbisonicEncoderSourceChannelIndices
  IN /\ peak_limiter_ # NULL /\ ~peak_limiter_.processed
     /\ ambisonic_binaural_decoder_ # NULL
     /\ ~ambisonic_binaural_decoder_.streamed
     /\ ambisonic_binaural_decoder_.num_filters = (order + 1) * (order + 1)
     /\ sh_hrirs_L_ # NULL /\ sh_hrirs_R_ # NULL
     /\ sh_hrirs_L_.num_channels = (order + 1) * (order + 1)
     /\ ambisonic_rotator_ # NULL
     /\ ambisonic_rotator_.last_rotation = "identity"
     /\ ambisonic_rotator_.order = order
     /\ ambisonic_mix_bed_.num_channels = (order + 1) * (order + 1)
     /\ ambisonic_mix_bed_.rotated_by = "none"
     /\ \A c \in 1..ambisonic_mix_bed_.num_channels :
           ambisonic_mix_bed_.data[c] = ZeroChannel
     /\ IF indices = <<>> THEN ambisonic_encoder_ = NULL
        ELSE /\ ambisonic_encoder_ # NULL
             /\ ambisonic_encoder_.number_of_input_channels = Len(indices)
             /\ ambisonic_encoder_.ambisonic_order = order
             /\ \A k \in 1..Len(indices) :
                   LET channel == EncodedChannels(audio_elements_)[k]
                   IN ambisonic_encoder_.sources[k - 1] =
                        Source(1, channel.azimuth, channel.elevation,
                               channel.distance)
             /\ \A c \in 1..ambisonic_encoder_input_buffer_.num_channels :
                   ambisonic_encoder_input_buffer_.data[c] = ZeroChannel

\* C16: after every successful AddAudioElement or RemoveLastAudioElement that
\* leaves one or more elements, the encoder, rotator, HRIR filters, decoder,
\* limiter and mix bed are newly created, with nothing carried over from
\* before the call.
C16_FreshDspAfterReconfiguration ==
  [][(/\ call'.op \in {"AddAudioElement", "RemoveLastAudioElement"}
      /\ call'.status = "OK"
      /\ audio_elements_' # <<>>)
     => NothingCarriedOver']_vars

\* C16 witness: an element was removed from a renderer with head tracking
\* turned on and rotated, leaving elements behind a new limiter.
C16_Witness ==
  /\ call.op = "RemoveLastAudioElement"
  /\ call.status = "OK"
  /\ audio_elements_ # <<>>
  /\ head_tracking_enabled_
  /\ world_rotation_ = "quarter_turn_z"
  /\ ~peak_limiter_.processed

-----------------------------------------------------------------------------
(* PeakLimiter on its own.  Samples, gains and the envelope are exact      *)
(* rationals <<numerator, denominator>> in lowest terms.                    *)

\* Longest signal fed to the limiter.
MaxFrames == 3

\* Sample values of the input: silence, just above the ceiling, above 1.
Samples == {<<0, 1>>, <<19, 20>>, <<-3, 2>>}

\* Channel count of the limited buffer.
LimiterChannels == 2

\* Ceilings 10^(ceiling_db / 20) the limiter is constructed with; like
\* 10^(-0.5 / 20), 17/18 is not a single-precision value of the model.
Ceilings == {<<17, 18>>}

\* Single-precision values are the multiples of 1 / FloatGrid; the double
\* precision of env_, ceiling_ and release_time_constant_ is taken as exact.
FloatGrid == 20

\* Release coefficients exp(-3 / (sampling_rate * release_ms / 1000)).
ReleaseTimeConstants == {<<1, 2>>, <<9, 10>>}

\* static_cast<float>, and the rounding of a single-precision product: the
\* nearest single-precision value, halves away from zero.
RoundToFloat(x) ==
  LET n == Magnitude(x)[1] * FloatGrid
      q == (2 * n + x[2]) \div (2 * x[2])
  IN Rat(IF x[1] < 0 THEN -q ELSE q, FloatGrid)

\* abs(x).  The call is unqualified, but it is an argument of std::max next
\* to a float, which only compiles where it resolves to the floating-point
\* overloads.
abs(x) == Magnitude(x)

\* PeakLimiter::PeakLimiter: env_(1.0).
NewPeakLimiter(ceiling, release_time_constant) ==
  [ceiling_ |-> ceiling, release_time_constant_ |-> release_time_constant,
   env_ |-> <<1, 1>>]

\* A limiter that asks for no gain reduction at all.
GetMaximumRequiredGain_Unity(l, sample) == <<1, 1>>

\* PeakLimiter::GetMaximumRequiredGain
GetMaximumRequiredGain(l, sample) ==
  IF RatLess(l.ceiling_, abs(sample)) THEN RatDiv(l.ceiling_, abs(sample))
  ELSE <<1, 1>>

\* max_samples[frame]: the largest abs(...) over the channels, from 0.
RECURSIVE MaxSampleUpTo(_, _)
MaxSampleUpTo(frame, k) ==
  IF k = 0 THEN <<0, 1>>
  ELSE RatMax(MaxSampleUpTo(frame, k - 1), abs(frame[k]))

MaxSample(frame) == MaxSampleUpTo(frame, LimiterChannels)

\* An envelope whose release step goes past the required gain.
NextEnvelope_ReleasePastGain(l, env, frame) ==
  LET max_req_gain == GetMaximumRequiredGain(l, MaxSample(frame))
  IN IF RatLess(max_req_gain, env) THEN max_req_gain
     ELSE RatAdd(RatMul(l.release_time_constant_, RatSub(max_req_gain, env)),
                 max_req_gain)

\* The envelope update made for one frame.
NextEnvelope(l, env, frame) ==
  LET max_req_gain == GetMaximumRequiredGain(l, MaxSample(frame))
  IN IF RatLess(max_req_gain, env) THEN max_req_gain
     ELSE RatAdd(RatMul(l.release_time_constant_, RatSub(env, max_req_gain)),
                 max_req_gain)

\* The envelope a Process call starts from, set to unity at every call.
EnvelopeAtBlockStart_Unity(l) == <<1, 1>>

\* The envelope a Process call starts from: the member env_, as the call
\* before left it.
EnvelopeAtBlockStart(l) == l.env_

\* env_ after each frame of a block, starting from a given envelope.
RECURSIVE LimiterEnv(_, _, _)
LimiterEnv(l, env, input) ==
  IF input = <<>> THEN <<>>
  ELSE LET next == NextEnvelope(l, env, input[1])
       IN <<next>> \o LimiterEnv(l, next, Tail(input))

\* PeakLimiter::Process on one block: the envelope of every frame, the
\* frames written and the limiter afterwards.
PeakLimiterProcess(l, input) ==
  LET env == LimiterEnv(l, EnvelopeAtBlockStart(l), input)
      applied == [f \in 1..Len(input) |-> RoundToFloat(env[f])]
  IN [limiter_env |-> applied,
      output |-> [f \in 1..Len(input) |->
                    [k \in 1..LimiterChannels |->
                       RoundToFloat(RatMul(input[f][k], applied[f]))]],
      limiter |-> [l EXCEPT !.env_ = IF input = <<>> THEN EnvelopeAtBlockStart(l)
                                     ELSE env[Len(input)]]]

Frames == [1..LimiterChannels -> Samples]

\* The blocks handed to one Process call: one or two frames.
Blocks == [1..1 -> Frames] \cup [1..2 -> Frames]

LimiterInit ==
  /\ RendererIdle
  /\ EncoderIdle
  /\ RotatorIdle
  /\ ThreadsIdle
  /\ DecoderIdle
  /\ WavIdle
  /\ peak_limiter \in {NewPeakLimiter(c, a) : c \in Ceilings,
                                              a \in ReleaseTimeConstants}
  /\ signal = <<>>
  /\ limiter_env = <<>>
  /\ limited = <<>>

\* One PeakLimiter::Process call on the next block of the signal.
LimitBlock(input) ==
  /\ Len(signal) + Len(input) <= MaxFrames
  /\ LET done == PeakLimiterProcess(peak_limiter, input)
     IN /\ peak_limiter' = done.limiter
        /\ limiter_env' = limiter_env \o done.limiter_env
        /\ limited' = limited \o done.output
  /\ signal' = signal \o input
  /\ UNCHANGED <<rendererVars, encoderVars, rotatorVars, decoderVars, wavVars, threadVars>>

LimiterNext == \E input \in Blocks : LimitBlock(input)

LimiterSpec == LimiterInit /\ [][LimiterNext]_vars

HalfUlp == <<1, 2 * FloatGrid>>

\* C17 amended: the envelope held in double precision never asks for more
\* than the ceiling allows; what is written is that envelope rounded to
\* single precision times the sample, rounded again, so its magnitude
\* exceeds the ceiling by at most the two roundings, (|x| + 1) half units in
\* the last place; at every frame one gain is applied to all channels.
C17_OutputWithinCeilingUpToRounding ==
  peak_limiter # NULL =>
    \A f \in 1..Len(limited) :
       \A k \in 1..LimiterChannels :
          /\ ~RatLess(RatAdd(peak_limiter.ceiling_,
                             RatMul(RatAdd(Magnitude(signal[f][k]), <<1, 1>>),
                                    HalfUlp)),
                      Magnitude(limited[f][k]))
          /\ limited[f][k] = RoundToFloat(RatMul(signal[f][k], limiter_env[f]))

\* C17 witness: a sample above the ceiling was limited, and what was written
\* is above the ceiling by less than the rounding.
C17_Witness ==
  /\ peak_limiter # NULL
  /\ Len(limited) >= 1
  /\ RatLess(peak_limiter.ceiling_, Magnitude(signal[1][1]))
  /\ RatLess(Magnitude(limited[1][1]), Magnitude(signal[1][1]))
  /\ RatLess(peak_limiter.ceiling_, Magnitude(limited[1][1]))

\* C18: however a signal is cut into consecutive blocks, the frames written
\* and the envelope left at the end are those of one Process call on the
\* whole signal by a new limiter.
C18_BlockSizeIndependent ==
  peak_limiter # NULL =>
    LET whole == PeakLimiterProcess(
                   NewPeakLimiter(peak_limiter.ceiling_,
                                  peak_limiter.release_time_constant_),
                   signal)
    IN /\ limited = whole.output
       /\ limiter_env = whole.limiter_env
       /\ peak_limiter.env_ = whole.limiter.env_

\* C18 witness: three frames, fed in two or three blocks, with the envelope
\* pushed down by the first frame and still recovering in the last.
C18_Witness ==
  /\ peak_limiter # NULL
  /\ Len(signal) = 3
  /\ RatLess(limiter_env[1], limiter_env[3])
  /\ RatLess(limiter_env[3], <<1, 1>>)
  /\ peak_limiter.env_ = limiter_env[3]

-----------------------------------------------------------------------------
(* AmbisonicEncoder on its own: SetSource, RemoveSource and                 *)
(* ProcessPlanarAudioData called in any order on one encoder.               *)

\* Input channel count and order the encoder is constructed with.
EncoderInputChannels == 2
EncoderOrder == 1

\* The values SetSource is called with.
SourceGains == {0, 1}
SourceAzimuths == {0, 30}
SourceElevations == {0}
SourceDistances == {0, 1, 2000000}

EncoderChannels == 0..(EncoderInputChannels - 1)

\* What ProcessPlanarAudioData writes for a block whose input channels are
\* numbered 0, 1, ...: the encoding matrix applied to them.
Encoded(e) ==
  ProcessPlanarAudioData(
    e, AudioBuffer((EncoderOrder + 1) * (EncoderOrder + 1), 1),
    [k \in 1..EncoderInputChannels |-> k - 1])

EncoderInit ==
  /\ RendererIdle
  /\ LimiterIdle
  /\ RotatorIdle
  /\ ThreadsIdle
  /\ DecoderIdle
  /\ WavIdle
  /\ source_encoder = AmbisonicEncoder(EncoderInputChannels, EncoderOrder)
  /\ last_source_call = [c \in EncoderChannels |-> [op |-> "none"]]
  /\ encoder_call = [op |-> "AmbisonicEncoder"]

\* encoder.SetSource(input_channel, gain, azimuth, elevation, distance); the
\* CHECKs of lines 42-44 pass for the channels of the encoder.
EncoderSetSource(input_channel, gain, azimuth, elevation, distance) ==
  /\ input_channel < source_encoder.number_of_input_channels
  /\ source_encoder' = SetSource(source_encoder, input_channel, gain, azimuth, elevation,
                          distance)
  /\ last_source_call' =
       [last_source_call EXCEPT ![input_channel] =
          [op |-> "SetSource",
           source |-> Source(gain, azimuth, elevation, distance)]]
  /\ encoder_call' =
       [op |-> "SetSource", input_channel |-> input_channel,
        source |-> Source(gain, azimuth, elevation, distance),
        last |-> last_source_call[input_channel],
        before |-> source_encoder]
  /\ UNCHANGED <<rendererVars, limiterVars, rotatorVars, decoderVars, wavVars, threadVars>>

\* encoder.RemoveSource(input_channel)
EncoderRemoveSource(input_channel) ==
  /\ input_channel < source_encoder.number_of_input_channels
  /\ source_encoder' = RemoveSource(source_encoder, input_channel)
  /\ last_source_call' =
       [last_source_call EXCEPT ![input_channel] = [op |-> "RemoveSource"]]
  /\ encoder_call' =
       [op |-> "RemoveSource", input_channel |-> input_channel,
        before |-> source_encoder]
  /\ UNCHANGED <<rendererVars, limiterVars, rotatorVars, decoderVars, wavVars, threadVars>>

\* encoder.ProcessPlanarAudioData(input, &output): const, the encoder is left
\* as it was.
EncoderProcess ==
  /\ encoder_call' =
       [op |-> "ProcessPlanarAudioData", output |-> Encoded(source_encoder),
        before |-> source_encoder]
  /\ UNCHANGED <<source_encoder, last_source_call, rendererVars, limiterVars,
                 rotatorVars, decoderVars, wavVars, threadVars>>

EncoderNext ==
  \/ \E c \in EncoderChannels, g \in SourceGains, az \in SourceAzimuths,
        el \in SourceElevations, d \in SourceDistances :
       EncoderSetSource(c, g, az, el, d)
  \/ \E c \in EncoderChannels : EncoderRemoveSource(c)
  \/ EncoderProcess

EncoderSpec == EncoderInit /\ [][EncoderNext]_vars

\* A SetSource call that repeats the last call made for its channel.
RepeatedSetSource ==
  /\ encoder_call.op = "SetSource"
  /\ encoder_call.last = [op |-> "SetSource", source |-> encoder_call.source]

\* C19: a SetSource call with the (gain, azimuth, elevation, distance) of the
\* last call for that channel leaves the source cache and the whole encoding
\* matrix as they were, so ProcessPlanarAudioData writes the same output
\* before and after it.
C19_SetSourceIdempotent ==
  RepeatedSetSource =>
    /\ source_encoder.sources = encoder_call.before.sources
    /\ source_encoder.encoding_matrix = encoder_call.before.encoding_matrix
    /\ Encoded(source_encoder) = Encoded(encoder_call.before)

\* C19 witness: a repeated SetSource on a channel that is audible, next to a
\* channel that has its own source.
C19_Witness ==
  /\ RepeatedSetSource
  /\ source_encoder.encoding_matrix[encoder_call.input_channel] # ZeroColumn
  /\ \E c \in EncoderChannels :
       /\ c # encoder_call.input_channel
       /\ source_encoder.encoding_matrix[c] # ZeroColumn

-----------------------------------------------------------------------------
(* AmbisonicRotator on its own: Process called block after block with the   *)
(* head rotation of the moment, on a bed that holds the same input.         *)

\* Number of Process calls followed.
MaxRotatorCalls == 3

\* The head rotations the calls are made with.
HeadRotations ==
  {"identity", "kSmallRotation", "kLargeRotation", "near_kLargeRotation",
   "quarter_turn_z"}

\* Order of the rotator and of the bed, as in hoa_rotator_test.cc.
kAmbisonicOrder == 3

\* The bed handed to every call: the same input, not rotated.
RotatorInput ==
  AudioBuffer((kAmbisonicOrder + 1) * (kAmbisonicOrder + 1), 16)

RotatorInit ==
  /\ RendererIdle
  /\ LimiterIdle
  /\ EncoderIdle
  /\ ThreadsIdle
  /\ DecoderIdle
  /\ WavIdle
  /\ hoa_rotator = AmbisonicRotator(kAmbisonicOrder)
  /\ rotator_calls = <<>>

\* hoa_rotator->Process(rotation, bed, &bed)
RotateBlock(rotation) ==
  /\ Len(rotator_calls) < MaxRotatorCalls
  /\ LET done == RotatorProcess(hoa_rotator, rotation, RotatorInput)
     IN /\ hoa_rotator' = done.rotator
        /\ rotator_calls' =
             Append(rotator_calls,
                    [rotation |-> rotation,
                     last_rotation |-> hoa_rotator.last_rotation,
                     applied |-> done.applied,
                     bed |-> done.bed,
                     rotator |-> done.rotator])
  /\ UNCHANGED <<rendererVars, limiterVars, encoderVars, threadVars,
                 decoderVars, wavVars>>

RotatorNext == \E rotation \in HeadRotations : RotateBlock(rotation)

RotatorSpec == RotatorInit /\ [][RotatorNext]_vars

\* A call whose rotation is within the threshold of the rotation last applied.
WithinThreshold(c) ==
  AngularDifference(c.rotation, c.last_rotation) < kRotationQuantization

-----------------------------------------------------------------------------
(* ObrImpl called from two threads: one calls Process block after block,    *)
(* the other configures the renderer.  A step is a stretch of a call that   *)
(* runs without acquiring or releasing mutex_.                              *)

\* Longest element list built while rendering.
MaxConcurrentElements == 2

\* Element types added while rendering.
ConcurrentTypes == {"kObjectMono", "k1OA"}

\* The unique_ptr members ResetDsp releases.
DspObjects ==
  <<ambisonic_binaural_decoder_, sh_hrirs_L_, sh_hrirs_R_, ambisonic_encoder_,
    peak_limiter_, ambisonic_rotator_>>

\* The state the spec places under mutex_: the element list, the encoder with
\* its encoding matrix, and the head-tracking state.
GuardedState ==
  <<audio_elements_, ambisonic_encoder_, head_tracking_enabled_,
    world_rotation_>>

ConcurrentInit ==
  /\ RendererIdle
  /\ LimiterIdle
  /\ EncoderIdle
  /\ RotatorIdle
  /\ ThreadsIdle
  /\ DecoderIdle
  /\ WavIdle

\* What a write made without mutex_ can lead to: it is a data race when a
\* Process call is in progress on the other thread.
UnlockedWrite ==
  IF audio_thread # "idle" THEN {"running", "undefined"} ELSE {"running"}

\* What the use of a released object leads to.
NullUse == {"aborted", "undefined"}

ConfigReturns == [pc |-> "idle", op |-> "none", before |-> <<>>]

\* AddAudioElement up to the call of InitializeDsp (lines 262-299): the checks
\* and the push_back, none of them under mutex_.
BeginAddAudioElement(type) ==
  /\ run = "running"
  /\ config_thread.pc = "idle"
  /\ Len(audio_elements_) < MaxConcurrentElements
  /\ UNCHANGED <<configVars, limiterVars, encoderVars, rotatorVars, decoderVars, wavVars, dspVars,
                 head_tracking_enabled_, world_rotation_, mutex_, audio_thread,
                 process_view>>
  /\ IF AddTypeMismatch(audio_elements_, type)
     THEN /\ call' = [Call("AddAudioElement", "FAILED_PRECONDITION")
                        EXCEPT !.type = type]
          /\ UNCHANGED <<audio_elements_, config_thread, run>>
     ELSE LET created == AudioElementConfig(type)
              audio_element_config ==
                IF audio_elements_ # <<>>
                THEN SetFirstChannelIndex(created,
                                          NextFirstChannelIndex(audio_elements_))
                ELSE created
          IN IF ExceedsInputChannels(audio_elements_, audio_element_config)
             THEN /\ call' = [Call("AddAudioElement", "RESOURCE_EXHAUSTED")
                                EXCEPT !.type = type]
                  /\ UNCHANGED <<audio_elements_, config_thread, run>>
             ELSE /\ audio_elements_' = Append(audio_elements_, audio_element_config)
                  /\ config_thread' = [pc |-> "InitializeDsp",
                                       op |-> "AddAudioElement",
                                       before |-> DspObjects]
                  /\ run' \in UnlockedWrite
                  /\ UNCHANGED call

\* RemoveLastAudioElement up to the call of InitializeDsp (lines 305-319): the
\* pop_back is not under mutex_.
BeginRemoveLastAudioElement ==
  /\ run = "running"
  /\ config_thread.pc = "idle"
  /\ UNCHANGED <<configVars, limiterVars, encoderVars, rotatorVars, decoderVars, wavVars, dspVars,
                 head_tracking_enabled_, world_rotation_, mutex_, audio_thread,
                 process_view>>
  /\ IF audio_elements_ = <<>>
     THEN /\ call' = Call("RemoveLastAudioElement", RemoveFromEmptyStatus)
          /\ UNCHANGED <<audio_elements_, config_thread, run>>
     ELSE /\ audio_elements_' = SubSeq(audio_elements_, 1, Len(audio_elements_) - 1)
          /\ run' \in UnlockedWrite
          /\ IF audio_elements_' = <<>>
             THEN /\ call' = Call("RemoveLastAudioElement", "OK")
                  /\ UNCHANGED config_thread
             ELSE /\ config_thread' = [pc |-> "InitializeDsp",
                                       op |-> "RemoveLastAudioElement",
                                       before |-> DspObjects]
                  /\ UNCHANGED call

\* InitializeDsp from its entry to the return of ResetDsp (lines 77-101, 57-75):
\* the checks, then ResetDsp, which holds mutex_ from line 61 to its return.
ConfigResetDsp ==
  /\ run = "running"
  /\ config_thread.pc = "InitializeDsp"
  /\ UNCHANGED <<configVars, limiterVars, encoderVars, rotatorVars, decoderVars, wavVars,
                 audio_elements_, head_tracking_enabled_, world_rotation_,
                 ambisonic_encoder_input_buffer_, audio_thread, process_view>>
  /\ LET outcome == InitializeDspOutcome(audio_elements_)
     IN IF outcome \in {"FAILED_PRECONDITION", "CHECK_FAILED"}
        THEN /\ run' = IF outcome = "CHECK_FAILED" THEN "aborted" ELSE run
             /\ call' = Call(config_thread.op,
                             IF outcome = "CHECK_FAILED" THEN "ABORT" ELSE outcome)
             /\ config_thread' = ConfigReturns
             /\ UNCHANGED <<mutex_, ambisonic_binaural_decoder_, sh_hrirs_L_,
                            sh_hrirs_R_, ambisonic_encoder_, peak_limiter_,
                            ambisonic_rotator_, ambisonic_mix_bed_>>
        ELSE /\ mutex_ = "free"
             /\ mutex_' = "free"
             /\ ambisonic_binaural_decoder_' = NULL
             /\ sh_hrirs_L_' = NULL
             /\ sh_hrirs_R_' = NULL
             /\ ambisonic_encoder_' = NULL
             /\ peak_limiter_' = NULL
             /\ ambisonic_rotator_' = NULL
             /\ ambisonic_mix_bed_' = Clear(ambisonic_mix_bed_)
             /\ config_thread' = [config_thread EXCEPT !.pc = "ResetDsp_returned"]
             /\ UNCHANGED <<call, run>>

\* The rest of InitializeDsp (lines 104-147), under the MutexLock of line 104.
ConfigInitializeDsp ==
  /\ run = "running"
  /\ config_thread.pc = "ResetDsp_returned"
  /\ mutex_ = "free"
  /\ mutex_' = "free"
  /\ InitializeDsp(audio_elements_)
  /\ IF InitializeDspStatus(audio_elements_) = "OK"
        /\ config_thread.op = "RemoveLastAudioElement"
     THEN /\ config_thread' = [config_thread EXCEPT !.pc = "UpdateAmbisonicEncoder"]
          /\ UNCHANGED call
     ELSE /\ config_thread' = ConfigReturns
          /\ call' = Call(config_thread.op, InitializeDspStatus(audio_elements_))
  /\ UNCHANGED <<configVars, limiterVars, encoderVars, rotatorVars, decoderVars, wavVars,
                 audio_elements_, head_tracking_enabled_, world_rotation_,
                 audio_thread, process_view>>

\* The UpdateAmbisonicEncoder call that ends RemoveLastAudioElement (line
\* 322): SetSource calls on the encoder, not under mutex_.
ConfigUpdateAmbisonicEncoder ==
  /\ run = "running"
  /\ config_thread.pc = "UpdateAmbisonicEncoder"
  /\ ambisonic_encoder_' = UpdateAmbisonicEncoder(ambisonic_encoder_, audio_elements_)
  /\ run' \in (IF ambisonic_encoder_ # NULL THEN UnlockedWrite ELSE {"running"})
  /\ call' = Call("RemoveLastAudioElement",
                  UpdateAmbisonicEncoderStatus(ambisonic_encoder_))
  /\ config_thread' = ConfigReturns
  /\ UNCHANGED <<configVars, limiterVars, encoderVars, rotatorVars, decoderVars, wavVars,
                 audio_elements_, head_tracking_enabled_, world_rotation_,
                 ambisonic_binaural_decoder_, sh_hrirs_L_, sh_hrirs_R_,
                 peak_limiter_, ambisonic_rotator_, ambisonic_mix_bed_,
                 ambisonic_encoder_input_buffer_, mutex_, audio_thread,
                 process_view>>

\* UpdateObjectPosition (lines 327-354): the positions and the encoder are
\* written without mutex_.
ConfigUpdateObjectPosition(audio_element_index, azimuth, elevation, distance) ==
  /\ run = "running"
  /\ config_thread.pc = "idle"
  /\ UNCHANGED <<configVars, limiterVars, encoderVars, rotatorVars, decoderVars, wavVars,
                 head_tracking_enabled_, world_rotation_,
                 ambisonic_binaural_decoder_, sh_hrirs_L_, sh_hrirs_R_,
                 peak_limiter_, ambisonic_rotator_, ambisonic_mix_bed_,
                 ambisonic_encoder_input_buffer_, threadVars>>
  /\ LET called(status) ==
           [Call("UpdateObjectPosition", status)
              EXCEPT !.index = audio_element_index,
                     !.position = <<azimuth, elevation, distance>>]
     IN IF audio_element_index >= Len(audio_elements_)
        THEN /\ call' = called("INVALID_ARGUMENT")
             /\ UNCHANGED <<audio_elements_, ambisonic_encoder_, run>>
        ELSE IF audio_elements_[audio_element_index + 1].object_channels = <<>>
        THEN /\ call' = called("FAILED_PRECONDITION")
             /\ UNCHANGED <<audio_elements_, ambisonic_encoder_, run>>
        ELSE /\ audio_elements_' =
                  [audio_elements_ EXCEPT ![audio_element_index + 1] =
                     SetObjectPositions(@, azimuth, elevation, distance)]
             /\ ambisonic_encoder_' =
                  UpdateAmbisonicEncoder(ambisonic_encoder_, audio_elements_')
             /\ run' \in UnlockedWrite
             /\ call' = called(UpdateAmbisonicEncoderStatus(ambisonic_encoder_))

\* EnableHeadTracking (lines 356-358): one store, not under mutex_.
ConfigEnableHeadTracking(enable_head_tracking) ==
  /\ run = "running"
  /\ config_thread.pc = "idle"
  /\ head_tracking_enabled_' = enable_head_tracking
  /\ run' \in UnlockedWrite
  /\ call' = Call("EnableHeadTracking", "OK")
  /\ UNCHANGED <<configVars, limiterVars, encoderVars, rotatorVars, decoderVars, wavVars,
                 audio_elements_, world_rotation_, dspVars, threadVars>>

\* SetHeadRotation (lines 360-364): one store, not under mutex_.
ConfigSetHeadRotation(rotation) ==
  /\ run = "running"
  /\ config_thread.pc = "idle"
  /\ world_rotation_' = rotation
  /\ run' \in UnlockedWrite
  /\ call' = Call("SetHeadRotation", "OK")
  /\ UNCHANGED <<configVars, limiterVars, encoderVars, rotatorVars, decoderVars, wavVars,
                 audio_elements_, head_tracking_enabled_, dspVars, threadVars>>

\* The shape of the buffers of the Process call in progress.
ShapeInProgress ==
  [in_channels |-> process_view.in_channels,
   in_frames |-> buffer_size_per_channel_,
   out_null |-> FALSE,
   out_channels |-> kNumBinauralChannels,
   out_frames |-> buffer_size_per_channel_]

\* Process, lines 151-155: the caller hands in buffers of the shape the
\* renderer has at this moment; the CHECKs read the element list before
\* mutex_ is taken.
AudioEnterProcess ==
  /\ run = "running"
  /\ audio_thread = "idle"
  /\ audio_thread' = "MutexLock"
  /\ process_view' = [in_channels |-> GetNumberOfInputChannels]
  /\ UNCHANGED <<rendererVars, limiterVars, encoderVars, rotatorVars, decoderVars, wavVars, mutex_,
                 config_thread>>

\* Process, line 158: absl::MutexLock lock(&mutex_).
AudioMutexLock ==
  /\ run = "running"
  /\ audio_thread = "MutexLock"
  /\ mutex_ = "free"
  /\ mutex_' = "audio"
  /\ audio_thread' = "encode"
  /\ UNCHANGED <<rendererVars, limiterVars, encoderVars, rotatorVars, decoderVars, wavVars,
                 config_thread, process_view>>

\* Process, lines 162-174, reading the element list as it is now: a list that
\* no longer fits the buffers and the encoder is read or written out of
\* bounds, or stopped by the CHECK of the encoder.
AudioEncode ==
  /\ run = "running"
  /\ audio_thread = "encode"
  /\ LET indices == GetAmbisonicEncoderSourceChannelIndices
         fits ==
           /\ ambisonic_encoder_ # NULL
           /\ Len(indices) = ambisonic_encoder_input_buffer_.num_channels
           /\ Len(indices) = ambisonic_encoder_.number_of_input_channels
           /\ \A k \in 1..Len(indices) : indices[k] < process_view.in_channels
     IN IF indices = <<>>
        THEN /\ ambisonic_mix_bed_' = Clear(ambisonic_mix_bed_)
             /\ audio_thread' = "mix"
             /\ UNCHANGED <<ambisonic_encoder_input_buffer_, run>>
        ELSE IF fits
        THEN /\ ambisonic_encoder_input_buffer_' =
                  GatherEncoderInput(ambisonic_encoder_input_buffer_, indices)
             /\ ambisonic_mix_bed_' =
                  ProcessPlanarAudioData(ambisonic_encoder_, ambisonic_mix_bed_,
                                         indices)
             /\ audio_thread' = "mix"
             /\ UNCHANGED run
        ELSE /\ run' \in NullUse
             /\ UNCHANGED <<ambisonic_encoder_input_buffer_, ambisonic_mix_bed_,
                            audio_thread>>
  /\ UNCHANGED <<configVars, limiterVars, encoderVars, rotatorVars, decoderVars, wavVars,
                 audio_elements_, head_tracking_enabled_, world_rotation_,
                 ambisonic_binaural_decoder_, sh_hrirs_L_, sh_hrirs_R_,
                 ambisonic_encoder_, peak_limiter_, ambisonic_rotator_, call,
                 mutex_, config_thread, process_view>>

\* Process, lines 177-185, reading the element list again.
AudioMix ==
  /\ run = "running"
  /\ audio_thread = "mix"
  /\ LET fits ==
           \A k \in 1..Len(audio_elements_) :
              IsAmbisonicsType(audio_elements_[k].type) =>
                /\ audio_elements_[k].number_of_input_channels
                     <= ambisonic_mix_bed_.num_channels
                /\ audio_elements_[k].first_channel_index
                     + audio_elements_[k].number_of_input_channels
                     <= process_view.in_channels
     IN IF fits
        THEN /\ ambisonic_mix_bed_' =
                  CopyAmbisonicInput(ambisonic_mix_bed_, audio_elements_)
             /\ audio_thread' = "rotate"
             /\ UNCHANGED run
        ELSE /\ run' = "undefined"
             /\ UNCHANGED <<ambisonic_mix_bed_, audio_thread>>
  /\ UNCHANGED <<configVars, limiterVars, encoderVars, rotatorVars, decoderVars, wavVars,
                 audio_elements_, head_tracking_enabled_, world_rotation_,
                 ambisonic_binaural_decoder_, sh_hrirs_L_, sh_hrirs_R_,
                 ambisonic_encoder_, peak_limiter_, ambisonic_rotator_,
                 ambisonic_encoder_input_buffer_, call, mutex_, config_thread,
                 process_view>>

\* Process, lines 187-191, reading the head-tracking state as it is now.
AudioRotate ==
  /\ run = "running"
  /\ audio_thread = "rotate"
  /\ IF ~RotateStageRuns
     THEN /\ audio_thread' = "decode"
          /\ UNCHANGED <<ambisonic_mix_bed_, ambisonic_rotator_, run>>
     ELSE IF ambisonic_rotator_ = NULL
     THEN /\ run' \in NullUse
          /\ UNCHANGED <<ambisonic_mix_bed_, ambisonic_rotator_, audio_thread>>
     ELSE LET done == RotatorProcess(ambisonic_rotator_, world_rotation_,
                                     ambisonic_mix_bed_)
          IN /\ ambisonic_mix_bed_' = done.bed
             /\ ambisonic_rotator_' = done.rotator
             /\ audio_thread' = "decode"
             /\ UNCHANGED run
  /\ UNCHANGED <<configVars, limiterVars, encoderVars, rotatorVars, decoderVars, wavVars,
                 audio_elements_, head_tracking_enabled_, world_rotation_,
                 ambisonic_binaural_decoder_, sh_hrirs_L_, sh_hrirs_R_,
                 ambisonic_encoder_, peak_limiter_,
                 ambisonic_encoder_input_buffer_, call, mutex_, config_thread,
                 process_view>>

\* Process, lines 194-199: decode, limit, and the release of mutex_ on return.
AudioDecodeAndLimit ==
  /\ run = "running"
  /\ audio_thread = "decode"
  /\ LET stop ==
           IF ambisonic_binaural_decoder_ = NULL THEN "decoder_null"
           ELSE IF ~DecoderChecks(ambisonic_binaural_decoder_,
                                  ambisonic_mix_bed_, ShapeInProgress)
                THEN "decoder_check"
           ELSE IF peak_limiter_ = NULL THEN "limiter_null"
           ELSE "none"
     IN /\ ambisonic_binaural_decoder_' =
             IF stop \in {"limiter_null", "none"}
             THEN [ambisonic_binaural_decoder_ EXCEPT !.streamed = TRUE]
             ELSE ambisonic_binaural_decoder_
        /\ peak_limiter_' =
             IF stop = "none" THEN [peak_limiter_ EXCEPT !.processed = TRUE]
             ELSE peak_limiter_
        /\ run' \in (IF stop = "none" THEN {"running"}
                     ELSE IF stop = "decoder_check" THEN {"aborted"}
                     ELSE NullUse)
        /\ IF stop = "none"
           THEN /\ mutex_' = "free"
                /\ audio_thread' = "idle"
                /\ call' = [Call("Process", "RENDERED")
                              EXCEPT !.shape = ShapeInProgress,
                                     !.output =
                                       LimiterProcess(
                                         peak_limiter_,
                                         ProcessAudioBuffer(
                                           ambisonic_binaural_decoder_,
                                           ambisonic_mix_bed_))]
           ELSE UNCHANGED <<mutex_, audio_thread, call>>
  /\ UNCHANGED <<configVars, limiterVars, encoderVars, rotatorVars, decoderVars, wavVars,
                 audio_elements_, head_tracking_enabled_, world_rotation_,
                 sh_hrirs_L_, sh_hrirs_R_, ambisonic_encoder_,
                 ambisonic_rotator_, ambisonic_mix_bed_,
                 ambisonic_encoder_input_buffer_, config_thread, process_view>>

ConcurrentNext ==
  \/ \E type \in ConcurrentTypes : BeginAddAudioElement(type)
  \/ BeginRemoveLastAudioElement
  \/ ConfigResetDsp
  \/ ConfigInitializeDsp
  \/ ConfigUpdateAmbisonicEncoder
  \/ \E index \in 0..(MaxConcurrentElements - 1), position \in Positions :
       ConfigUpdateObjectPosition(index, position[1], position[2], position[3])
  \/ \E enable \in BOOLEAN : ConfigEnableHeadTracking(enable)
  \/ \E rotation \in Rotations : ConfigSetHeadRotation(rotation)
  \/ AudioEnterProcess
  \/ AudioMutexLock
  \/ AudioEncode
  \/ AudioMix
  \/ AudioRotate
  \/ AudioDecodeAndLimit

ConcurrentSpec == ConcurrentInit /\ [][ConcurrentNext]_vars

\* C11: the element list, the encoding matrix and the head-tracking state are
\* written only under mutex_, so none of them changes while the thread inside
\* Process holds mutex_.
C11_GuardedByMutex ==
  [][mutex_ = "audio" => GuardedState' = GuardedState]_vars

\* C12: a Process call that holds mutex_ while AddAudioElement or
\* RemoveLastAudioElement is re-initializing the DSP finds no object released
\* that existed before the reconfiguration began.
C12_ReinitializationAtomic ==
  (mutex_ = "audio" /\ config_thread.pc \in {"InitializeDsp", "ResetDsp_returned"})
    => \A i \in 1..Len(DspObjects) :
          config_thread.before[i] # NULL => DspObjects[i] # NULL

-----------------------------------------------------------------------------
(* Head tracking switched off and on again.                                 *)

\* C21: when head tracking is switched on again on a rotator that has applied
\* a rotation before, the rotation the rotator last applied is reset to the
\* current head rotation, so that the next Process call does not interpolate
\* from the orientation that was in effect before.
C21_ReenableResetsRotator ==
  [][(/\ ~head_tracking_enabled_
      /\ head_tracking_enabled_'
      /\ ambisonic_rotator_ # NULL
      /\ ambisonic_rotator_.last_rotation # "identity")
       => ambisonic_rotator_'.last_rotation = world_rotation_']_vars

-----------------------------------------------------------------------------
(* Element configurations by kind.                                          *)

\* The filter order of a kind: the order of the scene for Ambisonics, the
\* highest order for loudspeaker layouts and objects.
FilterOrderOfKind(type) ==
  IF type \in AmbisonicsTypes THEN GetAmbisonicOrder(type)
  ELSE kMaxSupportedAmbisonicOrder

\* A configuration that reports the channel count and filter order of its kind.
ReportsItsKind(config) ==
  /\ config.number_of_input_channels = NominalChannels(config.type)
  /\ config.binaural_filters_ambisonic_order = FilterOrderOfKind(config.type)
  /\ config.type \in AmbisonicsTypes =>
       /\ config.binaural_filters_ambisonic_order \in 1..7
       /\ config.number_of_input_channels =
            (config.binaural_filters_ambisonic_order + 1)
              * (config.binaural_filters_ambisonic_order + 1)
       /\ Len(config.ambisonic_channels) = config.number_of_input_channels
  /\ config.type \in LoudspeakerLayoutTypes =>
       /\ config.number_of_input_channels = Len(config.loudspeaker_channels)
       /\ config.binaural_filters_ambisonic_order = 7
  /\ config.type = "kObjectMono" =>
       /\ config.number_of_input_channels = 1
       /\ Len(config.object_channels) = 1
       /\ config.binaural_filters_ambisonic_order = 7

\* C22: the configuration of every Ambisonic, loudspeaker and mono object
\* type, and of every element of the list, has the channel count and the
\* filter order of its kind, and the mix bed of an initialized, live renderer has
\* (order + 1)^2 channels for the filter order of the first element.
C22_ConfigMatchesKind ==
  /\ \A type \in AmbisonicsTypes \cup LoudspeakerLayoutTypes \cup ObjectTypes :
       ReportsItsKind(AudioElementConfig(type))
  /\ \A k \in 1..Len(audio_elements_) :
       audio_elements_[k].type
           \in AmbisonicsTypes \cup LoudspeakerLayoutTypes \cup ObjectTypes
         => ReportsItsKind(audio_elements_[k])
  /\ (/\ run = "running"
      /\ audio_elements_ # <<>>
      /\ ambisonic_binaural_decoder_ # NULL) =>
       ambisonic_mix_bed_.num_channels =
         (audio_elements_[1].binaural_filters_ambisonic_order + 1)
           * (audio_elements_[1].binaural_filters_ambisonic_order + 1)

\* C22 witness: a 7.1.4 element behind another one, on a renderer whose bed
\* was created for filter order 7.
C22_Witness ==
  /\ Len(audio_elements_) = 2
  /\ audio_elements_[2].type = "kLayout7_1_4_ch"
  /\ audio_elements_[2].number_of_input_channels = 12
  /\ ambisonic_binaural_decoder_ # NULL
  /\ ambisonic_mix_bed_.num_channels = 64

-----------------------------------------------------------------------------
(* The FFT manager and the binaural decoder on their own.                   *)

\* Largest block size the manager is constructed with.
MaxFramesPerBuffer == 40

\* Blocks handed to one decoder.
MaxDecoderBlocks == 2

\* Channel counts of the SH-HRIRs the decoder is constructed with.
HrirChannels == {1, 4}

kMinFftSize == 32

kNumMonoChannels == 1

kNumStereoChannels == 2

RECURSIVE PowTwoFrom(_, _)
PowTwoFrom(power, input) ==
  IF power >= input THEN power ELSE PowTwoFrom(2 * power, input)

\* NextPowTwo(input): the values MiscMath.NextPowTwoTest pins are those of
\* the least power of two that is not below the input.
NextPowTwo(input) == PowTwoFrom(1, input)

\* A manager whose transform has no minimum size.
FftManager_NoMinimum(frames_per_buffer) ==
  [fft_size_ |-> NextPowTwo(frames_per_buffer) * 2,
   frames_per_buffer_ |-> frames_per_buffer,
   temp_zeropad_buffer_ |-> NextPowTwo(frames_per_buffer) * 2,
   temp_freq_buffer_ |-> NextPowTwo(frames_per_buffer) * 2]

\* FftManager::FftManager: the transform size and the two scratch buffers
\* of that size.
FftManager(frames_per_buffer) ==
  LET fft_size == IF NextPowTwo(frames_per_buffer) * 2 > kMinFftSize
                  THEN NextPowTwo(frames_per_buffer) * 2
                  ELSE kMinFftSize
  IN [fft_size_ |-> fft_size,
      frames_per_buffer_ |-> frames_per_buffer,
      temp_zeropad_buffer_ |-> fft_size,
      temp_freq_buffer_ |-> fft_size]

\* The members AmbisonicBinauralDecoder's constructor sizes from the block
\* size: the frequency-domain and the time-domain scratch channel.
DecoderScratch(num_channels, frames_per_buffer) ==
  [freq_input_ |-> NextPowTwo(frames_per_buffer) * kNumStereoChannels,
   filtered_input_ |-> frames_per_buffer,
   num_filters |-> num_channels,
   blocks |-> 0]

\* The DCHECKs of FftManager::FreqFromTimeDomain on the sizes of its two
\* channels.
FreqFromTimeDomainPrecondition(manager, time_size, freq_size) ==
  /\ freq_size = manager.fft_size_
  /\ time_size <= manager.fft_size_

DecoderInit ==
  /\ RendererIdle
  /\ LimiterIdle
  /\ EncoderIdle
  /\ RotatorIdle
  /\ ThreadsIdle
  /\ DecoderIdle
  /\ WavIdle

\* fft_manager_(buffer_size_per_channel_) in ObrImpl's constructor.
NewFftManager(frames_per_buffer) ==
  /\ fft_manager_ = NULL
  /\ fft_manager_' = FftManager(frames_per_buffer)
  /\ UNCHANGED <<binaural_decoder, decoder_run, rendererVars, limiterVars,
                 encoderVars, rotatorVars, threadVars, wavVars>>

\* new AmbisonicBinauralDecoder(..., buffer_size_per_channel_, &fft_manager_)
\* in InitializeDsp: the block size is that of the manager.
NewAmbisonicBinauralDecoder(num_channels) ==
  /\ fft_manager_ # NULL
  /\ binaural_decoder = NULL
  /\ binaural_decoder' =
       DecoderScratch(num_channels, fft_manager_.frames_per_buffer_)
  /\ UNCHANGED <<fft_manager_, decoder_run, rendererVars, limiterVars,
                 encoderVars, rotatorVars, threadVars, wavVars>>

\* AmbisonicBinauralDecoder::ProcessAudioBuffer on a block of the block
\* size: each channel is transformed into freq_input_[0]. Where the DCHECK
\* on its size fails, a build with DCHECKs stops and a build without them
\* lets the transform write fft_size_ values into the shorter channel.
DecoderProcessAudioBuffer ==
  /\ binaural_decoder # NULL
  /\ decoder_run = "running"
  /\ binaural_decoder.blocks < MaxDecoderBlocks
  /\ IF FreqFromTimeDomainPrecondition(fft_manager_,
                                       fft_manager_.frames_per_buffer_,
                                       binaural_decoder.freq_input_)
       THEN /\ binaural_decoder' =
                 [binaural_decoder EXCEPT !.blocks = @ + 1]
            /\ UNCHANGED decoder_run
       ELSE /\ decoder_run' \in {"aborted", "undefined"}
            /\ UNCHANGED binaural_decoder
  /\ UNCHANGED <<fft_manager_, rendererVars, limiterVars, encoderVars,
                 rotatorVars, threadVars, wavVars>>

DecoderNext ==
  \/ \E frames_per_buffer \in 1..MaxFramesPerBuffer :
       NewFftManager(frames_per_buffer)
  \/ \E num_channels \in HrirChannels :
       NewAmbisonicBinauralDecoder(num_channels)
  \/ DecoderProcessAudioBuffer

DecoderSpec == DecoderInit /\ [][DecoderNext]_vars

\* The powers of two up to 2^16.
PowersOfTwo == {1, 2, 4, 8, 16, 32, 64, 128, 256, 512, 1024, 2048, 4096,
                8192, 16384, 32768, 65536}

\* next_pow2(B) of the specification: the least power of two >= B.
LeastPowerOfTwoAtLeast(b) ==
  CHOOSE p \in PowersOfTwo :
    /\ p >= b
    /\ \A q \in PowersOfTwo : q >= b => p <= q

\* C23: the transform size of a manager constructed for block size B is
\* max(32, 2 * next_pow2(B)); it is a power of two, at least 32 and at
\* least 2 * B.
C23_FftSize ==
  fft_manager_ # NULL =>
    LET B == fft_manager_.frames_per_buffer_
        N == fft_manager_.fft_size_
    IN /\ B >= 1
       /\ N = (IF 2 * LeastPowerOfTwoAtLeast(B) > 32
               THEN 2 * LeastPowerOfTwoAtLeast(B) ELSE 32)
       /\ N \in PowersOfTwo
       /\ N >= 32
       /\ N >= 2 * B

\* C23 witness: managers on both sides of the minimum, one for B = 5 with
\* the minimum size and, in another run, one for B = 24 with 2 * 32.
C23_Witness ==
  /\ fft_manager_ # NULL
  /\ \/ fft_manager_.frames_per_buffer_ = 5 /\ fft_manager_.fft_size_ = 32
     \/ fft_manager_.frames_per_buffer_ = 24 /\ fft_manager_.fft_size_ = 64
  /\ binaural_decoder # NULL

\* C26: the decoder's frequency-domain scratch channel has the transform
\* size of the manager it was built on, and no ProcessAudioBuffer call
\* fails the size precondition of FreqFromTimeDomain.
C26_ScratchHasFftSize ==
  /\ (fft_manager_ # NULL /\ binaural_decoder # NULL) =>
       binaural_decoder.freq_input_ = fft_manager_.fft_size_
  /\ decoder_run = "running"

-----------------------------------------------------------------------------
(* The column SetSource writes, and the matrix against the source cache.    *)

\* g = gain / max(distance, 0.5) of a cached source tuple.
GainOverDistance(s) ==
  RatDiv(<<s.gain, 1>>, RatMax(<<s.distance, 1>>, <<1, 2>>))

\* The column the specification gives a source tuple: zero when g < 1e-6,
\* otherwise g times the coefficients of its direction.
ExpectedColumn(s) ==
  IF RatLess(GainOverDistance(s), <<1, 1000000>>) THEN ZeroColumn
  ELSE [overall_gain |-> GainOverDistance(s), azimuth |-> s.azimuth,
        elevation |-> s.elevation]

\* C24: after SetSource(c, gain, azimuth, elevation, distance) column c of
\* the encoding matrix is zero exactly when g = gain / max(distance, 0.5) is
\* below 1e-6, and is g * Y(azimuth, elevation) otherwise.
C24_SetSourceColumn ==
  encoder_call.op = "SetSource" =>
    LET column == source_encoder.encoding_matrix[encoder_call.input_channel]
        g == GainOverDistance(encoder_call.source)
    IN /\ (column = ZeroColumn) <=> RatLess(g, <<1, 1000000>>)
       /\ column = ExpectedColumn(encoder_call.source)

\* C24 witness: a SetSource call with unit gain at distance 0, encoded with
\* g = 2, next to a channel whose source of unit gain is so far away that
\* its column is zero.
C24_Witness ==
  /\ encoder_call.op = "SetSource"
  /\ encoder_call.source.gain = 1
  /\ encoder_call.source.distance = 0
  /\ source_encoder.encoding_matrix[encoder_call.input_channel].overall_gain
       = <<2, 1>>
  /\ \E c \in EncoderChannels :
       /\ source_encoder.sources[c] # NoSource
       /\ source_encoder.sources[c].gain = 1
       /\ source_encoder.encoding_matrix[c] = ZeroColumn

\* C27: after any sequence of SetSource and RemoveSource calls every column
\* of the encoding matrix is the one its cache entry stands for: zero
\* without an entry, zero for an entry with g < 1e-6, g * Y otherwise.
C27_MatrixMatchesCache ==
  source_encoder # NULL =>
    \A c \in DOMAIN source_encoder.sources :
      source_encoder.encoding_matrix[c] =
        IF source_encoder.sources[c] = NoSource THEN ZeroColumn
        ELSE ExpectedColumn(source_encoder.sources[c])

\* C27 witness: RemoveSource has just erased the entry of a channel that
\* was audible, next to a channel that still is.
C27_Witness ==
  /\ encoder_call.op = "RemoveSource"
  /\ encoder_call.before.encoding_matrix[encoder_call.input_channel]
       # ZeroColumn
  /\ source_encoder.sources[encoder_call.input_channel] = NoSource
  /\ \E c \in EncoderChannels :
       /\ source_encoder.sources[c] # NoSource
       /\ source_encoder.encoding_matrix[c] # ZeroColumn

-----------------------------------------------------------------------------
(* The range of the limiter envelope.                                       *)

\* The gain a frame asks for: c / |x| for its largest magnitude |x| when
\* that is above the ceiling c, 1 otherwise.
RequiredGain(l, frame) ==
  IF RatLess(l.ceiling_, MaxSample(frame))
    THEN RatDiv(l.ceiling_, MaxSample(frame))
    ELSE <<1, 1>>

\* env_ lies in (0, 1].
EnvelopeInRange(l) ==
  /\ RatLess(<<0, 1>>, l.env_)
  /\ ~RatLess(<<1, 1>>, l.env_)

\* A Process call on one frame: an attack sets the envelope to the required
\* gain, below 1; a release leaves it between its old value and the
\* required gain.
AttackOrRelease ==
  (peak_limiter # NULL /\ Len(signal') = Len(signal) + 1) =>
    LET g == RequiredGain(peak_limiter, signal'[Len(signal')])
        e == peak_limiter.env_
        next == peak_limiter'.env_
    IN IF RatLess(g, e)
         THEN next = g /\ RatLess(next, <<1, 1>>)
         ELSE ~RatLess(next, e) /\ ~RatLess(g, next)

\* C25: the envelope is 1 after construction and stays in (0, 1] after any
\* sequence of Process calls; an attack sets it to c / |x| < 1 and a release
\* step moves it toward the required gain without going past it.
C25_EnvelopeInUnitInterval ==
  /\ [](peak_limiter # NULL =>
          /\ EnvelopeInRange(peak_limiter)
          /\ signal = <<>> => peak_limiter.env_ = <<1, 1>>)
  /\ [][AttackOrRelease]_vars

\* C25 witness: the first frame holds -3/2 and pushed the envelope down to
\* c / (3/2), the second frame is silent and the envelope is on its way back,
\* strictly between that gain and 1.
C25_Witness ==
  /\ peak_limiter # NULL
  /\ Len(signal) = 2
  /\ MaxSample(signal[1]) = <<3, 2>>
  /\ MaxSample(signal[2]) = <<0, 1>>
  /\ RatLess(RatDiv(peak_limiter.ceiling_, <<3, 2>>), peak_limiter.env_)
  /\ RatLess(peak_limiter.env_, <<1, 1>>)

-----------------------------------------------------------------------------
(* Object positions across AddAudioElement and RemoveLastAudioElement.      *)

\* A call that changed the element list and returned OK.
Reconfigured ==
  /\ call'.op \in {"AddAudioElement", "RemoveLastAudioElement"}
  /\ call'.status = "OK"
  /\ run' = "running"

\* Every source channel of the list is encoded, under its index in the
\* walk over the list, at the position it holds.
EncodesPositionsOf(encoder, elements) ==
  LET channels == EncodedChannels(elements)
  IN \A c \in 0..(Len(channels) - 1) :
       encoder.encoding_matrix[c] =
         ExpectedColumn(Source(1, channels[c + 1].azimuth,
                               channels[c + 1].elevation,
                               channels[c + 1].distance))

\* C28: an AddAudioElement or RemoveLastAudioElement call that succeeds
\* leaves every element it keeps with the object positions it held, as
\* UpdateObjectPosition set them, and the encoder built by the call encodes
\* those positions.
C28_PositionsSurviveReconfiguration ==
  [][Reconfigured =>
       /\ \A i \in 1..Len(audio_elements_) :
            i <= Len(audio_elements_') =>
              audio_elements_'[i].object_channels
                = audio_elements_[i].object_channels
       /\ audio_elements_' # <<>> /\ EncodedChannels(audio_elements_') # <<>>
            => /\ ambisonic_encoder_' # NULL
               /\ EncodesPositionsOf(ambisonic_encoder_', audio_elements_')]_vars

\* C28 witness: AddAudioElement has just added a second object behind one
\* that had been moved to (90, 30, 2), and the new encoder has it there.
C28_Witness ==
  /\ call.op = "AddAudioElement"
  /\ call.status = "OK"
  /\ Len(audio_elements_) = 2
  /\ audio_elements_[1].object_channels # <<>>
  /\ audio_elements_[1].object_channels[1].azimuth = 90
  /\ audio_elements_[1].object_channels[1].distance = 2
  /\ ambisonic_encoder_ # NULL
  /\ ambisonic_encoder_.encoding_matrix[0]
       = [overall_gain |-> <<1, 2>>, azimuth |-> 90, elevation |-> 30]

-----------------------------------------------------------------------------
(* Rendering with head tracking disabled.                                   *)

\* The bed after the encode and mix steps of Process, before any rotation;
\* world_rotation_ takes no part in it.
UnrotatedBed ==
  LET indices == GetAmbisonicEncoderSourceChannelIndices
      encoded == IF indices # <<>>
                 THEN ProcessPlanarAudioData(ambisonic_encoder_,
                                             ambisonic_mix_bed_, indices)
                 ELSE Clear(ambisonic_mix_bed_)
  IN CopyAmbisonicInput(encoded, audio_elements_)

\* C30: while head tracking is disabled, what Process writes is decided by
\* the input, the elements, the encoder, the decoder and the limiter alone:
\* it is the block decoded and limited from the bed as encoded, whatever
\* world_rotation_ holds, and the rotator is left as it was.
C30_OutputIgnoresHeadRotation ==
  [][(/\ call'.op = "Process"
      /\ call'.status = "RENDERED"
      /\ ~head_tracking_enabled_)
       => /\ call'.output =
               LimiterProcess(peak_limiter_,
                              ProcessAudioBuffer(ambisonic_binaural_decoder_,
                                                 UnrotatedBed))
          /\ call'.output.limited.rotated_by = "none"
          /\ ambisonic_rotator_' = ambisonic_rotator_]_vars

\* C30 witness: a block rendered with head tracking disabled while the head
\* rotation is a quarter turn: nothing in the output is rotated.
C30_Witness ==
  /\ call.op = "Process"
  /\ call.status = "RENDERED"
  /\ ~head_tracking_enabled_
  /\ world_rotation_ = "quarter_turn_z"
  /\ call.output.limited.rotated_by = "none"

-----------------------------------------------------------------------------
(* WavReader on its own: a valid header, then ReadSamples calls.            *)

\* Largest sample count a header declares.
MaxDeclaredSamples == 4

\* Largest number of bytes the stream holds after the header.
MaxStreamBytes == 12

\* Largest sample count one ReadSamples call asks for.
MaxRequest == 3

\* size_t arithmetic wraps; the model keeps the wrap in a 16-bit word.
SizeModulus == 65536

\* sizeof(int16_t), the only sample size ParseHeader accepts.
BytesPerSample == 2

\* The stream behind the reader: the bytes after the header, the read
\* position among them, and good().
Stream(size) == [size |-> size, position |-> 0, good |-> TRUE]

\* WavReader::ReadBinaryDataFromStream: nothing from a stream that is not
\* good; otherwise istream::read, which delivers what is left and fails the
\* stream when that is less than was asked for.
ReadBinaryDataFromStream(stream, size) ==
  IF ~stream.good THEN [gcount |-> 0, stream |-> stream]
  ELSE LET left == stream.size - stream.position
           gcount == IF size <= left THEN size ELSE left
       IN [gcount |-> gcount,
           stream |-> [stream EXCEPT !.position = @ + gcount,
                                     !.good = (size <= left)]]

\* WavReader::ParseHeader on a well-formed 16-bit PCM header whose data
\* chunk declares bytes_in_payload bytes.
ParseHeader(bytes_in_payload, stream) ==
  [init_ |-> TRUE,
   bytes_per_sample_ |-> BytesPerSample,
   num_total_samples_ |-> bytes_in_payload \div BytesPerSample,
   num_remaining_samples_ |-> bytes_in_payload \div BytesPerSample,
   binary_stream_ |-> stream]

\* WavReader::ReadSamples: what it returns and the reader it leaves.
ReadSamples(reader, num_samples) ==
  LET num_samples_to_read ==
        IF reader.num_remaining_samples_ < num_samples
        THEN reader.num_remaining_samples_ ELSE num_samples
      read == ReadBinaryDataFromStream(reader.binary_stream_,
                                       num_samples * BytesPerSample)
      num_samples_read == read.gcount \div reader.bytes_per_sample_
  IN IF num_samples_to_read = 0
     THEN [returned |-> 0, reader |-> reader]
     ELSE [returned |-> num_samples_read,
           reader |-> [reader EXCEPT
                         !.binary_stream_ = read.stream,
                         !.num_remaining_samples_ =
                            (@ - num_samples_read) % SizeModulus]]

WavInit ==
  /\ RendererIdle
  /\ LimiterIdle
  /\ EncoderIdle
  /\ RotatorIdle
  /\ ThreadsIdle
  /\ DecoderIdle
  /\ WavIdle

\* WavReader reader(&stream) on a stream with a valid header.
NewWavReader(bytes_in_payload, stream_bytes) ==
  /\ wav_reader = NULL
  /\ bytes_in_payload % BytesPerSample = 0
  /\ bytes_in_payload \div BytesPerSample >= 1
  /\ wav_reader' = ParseHeader(bytes_in_payload, Stream(stream_bytes))
  /\ wav_call' = [op |-> "WavReader", num_samples |-> 0, returned |-> 0,
                  consumed |-> 0, remaining |-> 0, cumulative |-> 0]
  /\ UNCHANGED <<rendererVars, limiterVars, encoderVars, rotatorVars,
                 threadVars, decoderVars>>

\* reader.ReadSamples(num_samples, target_buffer)
WavReadSamples(num_samples) ==
  /\ wav_reader # NULL
  /\ LET done == ReadSamples(wav_reader, num_samples)
     IN /\ wav_reader' = done.reader
        /\ wav_call' =
             [op |-> "ReadSamples", num_samples |-> num_samples,
              returned |-> done.returned,
              consumed |-> done.reader.binary_stream_.position
                             - wav_reader.binary_stream_.position,
              remaining |-> wav_reader.num_remaining_samples_,
              cumulative |-> wav_call.cumulative + done.returned]
  /\ UNCHANGED <<rendererVars, limiterVars, encoderVars, rotatorVars,
                 threadVars, decoderVars>>

WavNext ==
  \/ \E bytes_in_payload \in 1..(MaxDeclaredSamples * BytesPerSample),
        stream_bytes \in 0..MaxStreamBytes :
       NewWavReader(bytes_in_payload, stream_bytes)
  \/ \E num_samples \in 0..MaxRequest : WavReadSamples(num_samples)

WavSpec == WavInit /\ [][WavNext]_vars

\* C29: every ReadSamples call returns, and takes from the stream, at most
\* min(requested, remaining) samples; the samples returned so far never
\* exceed the total the header declares; and the remaining-sample counter
\* goes down by what was returned, never below zero.
C29_ReadWithinDeclaredTotal ==
  wav_call.op = "ReadSamples" =>
    LET allowed == IF wav_call.remaining < wav_call.num_samples
                   THEN wav_call.remaining ELSE wav_call.num_samples
    IN /\ wav_call.returned <= allowed
       /\ wav_call.consumed <= allowed * BytesPerSample
       /\ wav_call.cumulative <= wav_reader.num_total_samples_
       /\ wav_reader.num_remaining_samples_
            = wav_call.remaining - wav_call.returned

====
